---- MODULE Spec2Model ----
(***************************************************************************)
(* State-machine model of the CivChess rules engine (class GameEngine in   *)
(* src/js/main.js).  Every engine method is an operator over a game record *)
(* g (the fields of the GameEngine object); every engine command is an     *)
(* action that applies the operator to the current state.  The outcome of  *)
(* Math.random() is an input of the action that draws it.                  *)
(***************************************************************************)
EXTENDS Integers, Sequences, FiniteSets, TLC

\* ---------------------------------------------------------------- bounds
BoardSize == 4
MaxTurn == 1
MaxTech == 1
MaxArmy == 8
MaxSettlers == 1
StartTurn == 20
MaxDraw == 1

\* ------------------------------------------------------------- constants
NULL == -1
\* the menu offers 2 to MaxPlayers players
MaxPlayers == 4
CITY == "city"
WARRIOR == "warrior"
SETTLER == "settler"
NoProduction == "null"
PRODUCTION_KEYS == {"DIPLOMACY", "SCIENCE", "WARRIOR", "SETTLER", "REPAIR"}

PRODUCTION_TYPES ==
  [k \in PRODUCTION_KEYS |->
     CASE k = "DIPLOMACY" -> [turns |-> 4]
       [] k = "SCIENCE"   -> [turns |-> 10]
       [] k = "WARRIOR"   -> [turns |-> 4]
       [] k = "SETTLER"   -> [turns |-> 6]
       [] k = "REPAIR"    -> [turns |-> 1]]

Coords == 0 .. (BoardSize - 1)

VARIABLES players, currentPlayerIndex, board, pieces, tileOwnership,
          gameOver, winner, turnNumber, nextId, last, controller

vars == <<players, currentPlayerIndex, board, pieces, tileOwnership,
          gameOver, winner, turnNumber, nextId, last, controller>>

\* The engine object as one record.
G ==
  [players |-> players, currentPlayerIndex |-> currentPlayerIndex,
   board |-> board, pieces |-> pieces, tileOwnership |-> tileOwnership,
   gameOver |-> gameOver, winner |-> winner, turnNumber |-> turnNumber,
   nextId |-> nextId]

\* ------------------------------------------------------------- utilities
Abs(x) == IF x < 0 THEN -x ELSE x
Sign(x) == IF x < 0 THEN -1 ELSE IF x > 0 THEN 1 ELSE 0
Max(a, b) == IF a >= b THEN a ELSE b
Range(s) == {s[i] : i \in DOMAIN s}
NumPlayers(g) == Cardinality(DOMAIN g.players)
PlayerIds(g) == DOMAIN g.players

HasPiece(g, id) == \E i \in DOMAIN g.pieces : g.pieces[i].id = id
PieceOf(g, id) == g.pieces[CHOOSE i \in DOMAIN g.pieces : g.pieces[i].id = id]
SetPiece(g, id, p) ==
  [g EXCEPT !.pieces = [i \in DOMAIN g.pieces |->
                           IF g.pieces[i].id = id THEN p ELSE g.pieces[i]]]

RECURSIVE InjSeqs(_, _)
InjSeqs(S, k) ==
  IF k = 0 THEN {<<>>}
  ELSE UNION {{<<x>> \o s : s \in InjSeqs(S \ {x}, k - 1)} : x \in S}

createEmptyBoard == [r \in Coords |-> [c \in Coords |-> NULL]]

isValidTile(row, col) ==
  row >= 0 /\ row < BoardSize /\ col >= 0 /\ col < BoardSize

DIRECTIONS == << <<-1, 0>>, <<1, 0>>, <<0, -1>>, <<0, 1>>,
                 <<-1, -1>>, <<-1, 1>>, <<1, -1>>, <<1, 1>> >>

NoTile == <<>>

\* First empty in-bounds neighbour in the direction order, or NoTile.
findAdjacentEmptyTile(g, row, col) ==
  LET ok(i) == /\ isValidTile(row + DIRECTIONS[i][1], col + DIRECTIONS[i][2])
               /\ g.board[row + DIRECTIONS[i][1]][col + DIRECTIONS[i][2]] = NULL
      hits == {i \in DOMAIN DIRECTIONS : ok(i)}
  IN IF hits = {} THEN NoTile
     ELSE LET i == CHOOSE j \in hits : \A k \in hits : j <= k
          IN <<row + DIRECTIONS[i][1], col + DIRECTIONS[i][2]>>

createPiece(g, type, ownerId, row, col) ==
  LET base == CASE type = CITY -> [hp |-> 4, maxHp |-> 4, damage |-> 0]
                [] type = WARRIOR -> [hp |-> 1, maxHp |-> 1, damage |-> 1]
                [] type = SETTLER -> [hp |-> 1, maxHp |-> 1, damage |-> 0]
      tech == IF ownerId \in DOMAIN g.players
              THEN g.players[ownerId].techScore ELSE 0
      hpBonus == IF tech > 0 /\ type \in {CITY, WARRIOR} THEN tech ELSE 0
      dmgBonus == IF tech > 0 /\ type = WARRIOR THEN tech ELSE 0
  IN [id |-> g.nextId, type |-> type, ownerId |-> ownerId,
      row |-> row, col |-> col,
      hp |-> base.hp + hpBonus, maxHp |-> base.maxHp + hpBonus,
      damage |-> base.damage + dmgBonus,
      hasMoved |-> FALSE, production |-> NoProduction,
      productionProgress |-> 0, productionPaused |-> FALSE,
      repeatProduction |-> TRUE]

\* pieces.push(piece); board[row][col] = piece  (the id is consumed)
PlacePiece(g, piece) ==
  [g EXCEPT !.pieces = Append(g.pieces, piece),
            !.board[piece.row][piece.col] = piece.id,
            !.nextId = g.nextId + 1]

getPlayerCities(g, playerId) ==
  {i \in DOMAIN g.pieces :
     g.pieces[i].type = CITY /\ g.pieces[i].ownerId = playerId}

\* ------------------------------------------------------- move validation
RECURSIVE PathScan(_, _, _, _, _, _, _)
PathScan(g, r, c, toRow, toCol, rowDir, colDir) ==
  IF r = toRow /\ c = toCol THEN TRUE
  ELSE IF g.board[r][c] # NULL THEN FALSE
  ELSE PathScan(g, r + rowDir, c + colDir, toRow, toCol, rowDir, colDir)

\* nothing on the way is looked at
isPathClear_Jumps(g, fromRow, fromCol, toRow, toCol) == TRUE

isPathClear(g, fromRow, fromCol, toRow, toCol) ==
  LET rowDir == Sign(toRow - fromRow)
      colDir == Sign(toCol - fromCol)
  IN PathScan(g, fromRow + rowDir, fromCol + colDir, toRow, toCol,
              rowDir, colDir)

\* a player's own pair of warriors blocks it too
isBlockedByBlockade_BlocksOwn(g, fromRow, fromCol, toRow, toCol, movingOwnerId) ==
  IF Abs(toRow - fromRow) # 1 \/ Abs(toCol - fromCol) # 1 THEN FALSE
  ELSE LET id1 == g.board[fromRow][toCol]
           id2 == g.board[toRow][fromCol]
       IN IF id1 = NULL \/ id2 = NULL THEN FALSE
          ELSE LET piece1 == PieceOf(g, id1)
                   piece2 == PieceOf(g, id2)
               IN IF piece1.type # WARRIOR \/ piece2.type # WARRIOR THEN FALSE
                  ELSE IF piece1.ownerId # piece2.ownerId THEN FALSE
                  ELSE TRUE

isBlockedByBlockade(g, fromRow, fromCol, toRow, toCol, movingOwnerId) ==
  IF Abs(toRow - fromRow) # 1 \/ Abs(toCol - fromCol) # 1 THEN FALSE
  ELSE LET id1 == g.board[fromRow][toCol]
           id2 == g.board[toRow][fromCol]
       IN IF id1 = NULL \/ id2 = NULL THEN FALSE
          ELSE LET piece1 == PieceOf(g, id1)
                   piece2 == PieceOf(g, id2)
               IN IF piece1.type # WARRIOR \/ piece2.type # WARRIOR THEN FALSE
                  ELSE IF piece1.ownerId # piece2.ownerId THEN FALSE
                  ELSE IF piece1.ownerId = movingOwnerId THEN FALSE
                  ELSE TRUE

Reject(reason) == [valid |-> FALSE, reason |-> reason]

\* Range rules of the piece type; "" when the range check passes.
RangeReason(g, piece, targetRow, targetCol) ==
  LET rowDiff == Abs(targetRow - piece.row)
      colDiff == Abs(targetCol - piece.col)
  IN IF piece.type = WARRIOR THEN
       IF rowDiff > 1 \/ colDiff > 1 THEN "Warriors can only move 1 tile"
       ELSE IF rowDiff = 0 /\ colDiff = 0 THEN "Must move to a different tile"
       ELSE ""
     ELSE IF piece.type = SETTLER THEN
       IF rowDiff > 0 /\ colDiff > 0 THEN "Settlers cannot move diagonally"
       ELSE IF rowDiff > 3 \/ colDiff > 3
         THEN "Settlers can only move up to 3 tiles"
       ELSE IF rowDiff = 0 /\ colDiff = 0 THEN "Must move to a different tile"
       ELSE IF ~isPathClear(g, piece.row, piece.col, targetRow, targetCol)
         THEN "Path is blocked"
       ELSE ""
     ELSE ""

\* Collision rules; "" when the target may be entered.
CollisionReason(g, piece, targetRow, targetCol) ==
  LET targetId == g.board[targetRow][targetCol]
  IN IF targetId = NULL THEN ""
     ELSE IF piece.type = SETTLER THEN "Settlers cannot attack"
     ELSE IF piece.type = WARRIOR THEN
       LET targetPiece == PieceOf(g, targetId)
           relation == g.players[piece.ownerId].relations[targetPiece.ownerId]
       IN IF relation = "peace" THEN "Cannot attack player at peace"
          ELSE IF targetPiece.ownerId = piece.ownerId
            THEN "Cannot attack own piece"
          ELSE ""
     ELSE ""

\* the tile-ownership gate is left out
canMoveTo_NoTileGate(g, piece, targetRow, targetCol) ==
  IF ~isValidTile(targetRow, targetCol) THEN Reject("Out of bounds")
  ELSE IF piece.hasMoved THEN Reject("Piece has already moved this turn")
  ELSE IF piece.type = CITY THEN Reject("Cities cannot move")
  ELSE
    LET rangeReason == RangeReason(g, piece, targetRow, targetCol)
        collision == CollisionReason(g, piece, targetRow, targetCol)
    IN IF rangeReason # "" THEN Reject(rangeReason)
       ELSE IF isBlockedByBlockade(g, piece.row, piece.col,
                                   targetRow, targetCol, piece.ownerId)
         THEN Reject("Blocked by enemy blockade")
       ELSE IF collision # "" THEN Reject(collision)
       ELSE [valid |-> TRUE, reason |-> ""]

canMoveTo(g, piece, targetRow, targetCol) ==
  IF ~isValidTile(targetRow, targetCol) THEN Reject("Out of bounds")
  ELSE IF piece.hasMoved THEN Reject("Piece has already moved this turn")
  ELSE IF piece.type = CITY THEN Reject("Cities cannot move")
  ELSE
    LET currentPlayer == g.players[piece.ownerId]
        tileOwner == g.tileOwnership[targetRow][targetCol]
        rangeReason == RangeReason(g, piece, targetRow, targetCol)
        collision == CollisionReason(g, piece, targetRow, targetCol)
    IN IF /\ tileOwner # NULL
          /\ tileOwner # piece.ownerId
          /\ currentPlayer.relations[tileOwner] = "peace"
         THEN Reject("Cannot move onto tile owned by player at peace")
       ELSE IF rangeReason # "" THEN Reject(rangeReason)
       ELSE IF isBlockedByBlockade(g, piece.row, piece.col,
                                   targetRow, targetCol, piece.ownerId)
         THEN Reject("Blocked by enemy blockade")
       ELSE IF collision # "" THEN Reject(collision)
       ELSE [valid |-> TRUE, reason |-> ""]

\* ------------------------------------------------ combat and elimination
\* the piece leaves the registry but not the grid
removePiece_LeavesCell(g, id) ==
  [g EXCEPT !.pieces = SelectSeq(g.pieces, LAMBDA p : p.id # id)]

removePiece(g, id) ==
  LET piece == PieceOf(g, id)
  IN [g EXCEPT !.pieces = SelectSeq(g.pieces, LAMBDA p : p.id # id),
               !.board[piece.row][piece.col] = NULL]

RECURSIVE RemoveAll(_, _)
RemoveAll(g, ids) ==
  IF ids = {} THEN g
  ELSE LET id == CHOOSE x \in ids : TRUE
       IN RemoveAll(removePiece(g, id), ids \ {id})

checkVictory(g) ==
  LET cityOwners == {g.pieces[i].ownerId :
                       i \in {j \in DOMAIN g.pieces : g.pieces[j].type = CITY}}
  IN IF Cardinality(cityOwners) = 1
       THEN [g EXCEPT !.gameOver = TRUE,
                      !.winner = CHOOSE o \in cityOwners : TRUE]
       ELSE g

PlayerUnits(g, playerId, type) ==
  {g.pieces[i].id : i \in {j \in DOMAIN g.pieces :
       g.pieces[j].ownerId = playerId /\ g.pieces[j].type = type}}

\* Math.max(1, Math.floor(n * 0.25)) for n > 0, else 0
warriorsToConvert(n) == IF n > 0 THEN Max(1, n \div 4) ELSE 0

\* The owner the converted warriors are created for.
Conquerer(g) == g.currentPlayerIndex

\* the warrior changes sides as it is, with the stats it had
ConvertWarrior_Relabels(g, id, conquerer) ==
  SetPiece(g, id, [PieceOf(g, id) EXCEPT !.ownerId = conquerer])

\* One conversion: remove the warrior, create a new one for the conquerer
\* on the same tile.
ConvertWarrior(g, id, conquerer) ==
  LET warrior == PieceOf(g, id)
      g1 == removePiece(g, id)
  IN PlacePiece(g1, createPiece(g1, WARRIOR, conquerer, warrior.row, warrior.col))

RECURSIVE ConvertAll(_, _, _)
ConvertAll(g, ids, conquerer) ==
  IF ids = <<>> THEN g
  ELSE ConvertAll(ConvertWarrior(g, Head(ids), conquerer), Tail(ids), conquerer)

NoElimination ==
  [eliminated |-> FALSE, playerId |-> NULL, conquerer |-> NULL,
   convertedUnits |-> <<>>, destroyedUnits |-> {}]

\* shuffle: the first warriorsToConvert entries of the shuffled warrior list.
checkPlayerElimination(g, playerId, shuffle) ==
  IF getPlayerCities(g, playerId) # {} THEN [g |-> g, result |-> NoElimination]
  ELSE
    LET conquerer == Conquerer(g)
        playerWarriors == PlayerUnits(g, playerId, WARRIOR)
        playerSettlers == PlayerUnits(g, playerId, SETTLER)
        converted == Range(shuffle)
        g1 == ConvertAll(g, shuffle, conquerer)
        g2 == RemoveAll(g1, playerWarriors \ converted)
        g3 == RemoveAll(g2, playerSettlers)
    IN [g |-> g3,
        result |-> [eliminated |-> TRUE, playerId |-> playerId,
                    conquerer |-> conquerer,
                    convertedUnits |->
                      [i \in DOMAIN shuffle |->
                         [oldUnit |-> shuffle[i],
                          newWarrior |-> g.nextId + i - 1]],
                    destroyedUnits |->
                      (playerWarriors \ converted) \cup playerSettlers]]

\* The outcomes of the shuffle that matter: which warriors come first.
Shuffles(g, playerId) ==
  LET ws == PlayerUnits(g, playerId, WARRIOR)
  IN InjSeqs(ws, warriorsToConvert(Cardinality(ws)))

\* Math.floor instead of Math.ceil
CaptureHp_Floor(maxHp) == maxHp \div 3

\* hp of a city after its capture: Math.ceil(maxHp / 3)
CaptureHp(maxHp) == (maxHp + 2) \div 3

\* the capture forgets to clear the production slot
CaptureCity_KeepsProduction(city, newOwner) ==
  [city EXCEPT !.hp = CaptureHp(city.maxHp), !.ownerId = newOwner]

\* the capture forgets to reset the hp
CaptureCity_NoHeal(city, newOwner) ==
  [city EXCEPT !.ownerId = newOwner, !.production = NoProduction,
               !.productionProgress = 0]

\* The captured city's record: the "City captured" assignments.
CaptureCity(city, newOwner) ==
  [city EXCEPT !.hp = CaptureHp(city.maxHp),
               !.ownerId = newOwner,
               !.production = NoProduction,
               !.productionProgress = 0]

resolveCombat(g, attackerId, defenderId, shuffle) ==
  LET attacker == PieceOf(g, attackerId)
      defender == PieceOf(g, defenderId)
      originalOwnerId == defender.ownerId
      hp == defender.hp - attacker.damage
      hit == SetPiece(g, defenderId, [defender EXCEPT !.hp = hp])
      base == [attacker |-> attackerId, defender |-> defenderId,
               damageDealt |-> attacker.damage, defenderDestroyed |-> FALSE,
               cityFlipped |-> FALSE, attackerSurvived |-> TRUE,
               elimination |-> NoElimination]
  IN IF hp <= 0 THEN
       IF defender.type = CITY THEN
         LET captured == CaptureCity([defender EXCEPT !.hp = hp],
                                     attacker.ownerId)
             g1 == [SetPiece(g, defenderId, captured) EXCEPT
                      !.tileOwnership[defender.row][defender.col] =
                         attacker.ownerId]
             el == checkPlayerElimination(g1, originalOwnerId, shuffle)
         IN [g |-> checkVictory(el.g),
             result |-> [base EXCEPT !.cityFlipped = TRUE,
                                     !.elimination = el.result]]
       ELSE [g |-> checkVictory(removePiece(hit, defenderId)),
             result |-> [base EXCEPT !.defenderDestroyed = TRUE]]
     ELSE [g |-> checkVictory(hit), result |-> base]

NoCombat ==
  [attacker |-> NULL, defender |-> NULL, damageDealt |-> 0,
   defenderDestroyed |-> FALSE, cityFlipped |-> FALSE,
   attackerSurvived |-> TRUE, elimination |-> NoElimination]

\* What a command returned: its name, its success flag and, for movePiece,
\* the combat record and the blocked flag.
Result(cmd, success, combat, hasCombat, blocked) ==
  [cmd |-> cmd, success |-> success, hasCombat |-> hasCombat,
   blocked |-> blocked, combat |-> combat]

MoveResult(success, combat, hasCombat, blocked) ==
  Result("movePiece", success, combat, hasCombat, blocked)

Returned(cmd, success) == Result(cmd, success, NoCombat, FALSE, FALSE)

\* the move forgets to take the tile
Advance_NoFlip(g, pieceId, targetRow, targetCol) ==
  LET piece == PieceOf(g, pieceId)
      moved == [piece EXCEPT !.row = targetRow, !.col = targetCol,
                             !.hasMoved = TRUE]
  IN [SetPiece(g, pieceId, moved) EXCEPT
        !.board = [g.board EXCEPT ![piece.row][piece.col] = NULL,
                                  ![targetRow][targetCol] = pieceId]]

\* "Move the piece" part of movePiece, lines after the combat branch.
Advance(g, pieceId, targetRow, targetCol) ==
  LET piece == PieceOf(g, pieceId)
      moved == [piece EXCEPT !.row = targetRow, !.col = targetCol,
                             !.hasMoved = TRUE]
      g1 == [SetPiece(g, pieceId, moved) EXCEPT
               !.board = [g.board EXCEPT ![piece.row][piece.col] = NULL,
                                         ![targetRow][targetCol] = pieceId]]
      tileOwner == g1.tileOwnership[targetRow][targetCol]
  IN IF /\ piece.type = WARRIOR
        /\ tileOwner # NULL
        /\ tileOwner # piece.ownerId
        /\ g1.players[piece.ownerId].relations[tileOwner] = "war"
       THEN [g1 EXCEPT !.tileOwnership[targetRow][targetCol] = piece.ownerId]
       ELSE g1

\* the refusal uses up the piece's move
DenyMove_MarksMoved(g, pieceId) ==
  SetPiece(g, pieceId, [PieceOf(g, pieceId) EXCEPT !.hasMoved = TRUE])

\* The MOVE_DENIED branch of movePiece: only the action log grows.
DenyMove(g, pieceId) == g

\* the attacker that could not advance keeps its move
StayBlocked_KeepsMove(g, pieceId) == g

\* The blocked branch of movePiece: the attacker stays and has moved.
StayBlocked(g, pieceId) ==
  SetPiece(g, pieceId, [PieceOf(g, pieceId) EXCEPT !.hasMoved = TRUE])

movePiece(g, pieceId, targetRow, targetCol, shuffle) ==
  LET piece == PieceOf(g, pieceId)
      canMove == canMoveTo(g, piece, targetRow, targetCol)
  IN IF ~canMove.valid
       THEN [g |-> DenyMove(g, pieceId),
             result |-> MoveResult(FALSE, NoCombat, FALSE, FALSE)]
     ELSE
       LET targetId == g.board[targetRow][targetCol]
       IN IF targetId # NULL /\ piece.type = WARRIOR THEN
            LET rc == resolveCombat(g, pieceId, targetId, shuffle)
            IN IF ~rc.result.attackerSurvived
                 THEN [g |-> rc.g,
                       result |-> MoveResult(TRUE, rc.result, TRUE, FALSE)]
               ELSE IF ~rc.result.defenderDestroyed \/ rc.result.cityFlipped
                 THEN [g |-> StayBlocked(rc.g, pieceId),
                       result |-> MoveResult(TRUE, rc.result, TRUE, TRUE)]
               ELSE [g |-> Advance(rc.g, pieceId, targetRow, targetCol),
                     result |-> MoveResult(TRUE, rc.result, TRUE, FALSE)]
          ELSE [g |-> Advance(g, pieceId, targetRow, targetCol),
                result |-> MoveResult(TRUE, NoCombat, FALSE, FALSE)]

\* ----------------------------------------------------- production, turns
\* the owner of the city is not compared with the player to move
setProduction_AnyOwner(g, cityId, productionType) ==
  LET city == PieceOf(g, cityId)
  IN IF city.type # CITY THEN [g |-> g, result |-> FALSE]
     ELSE [g |-> SetPiece(g, cityId,
                    [city EXCEPT !.production = productionType,
                                 !.productionProgress = 0,
                                 !.productionPaused = FALSE]),
           result |-> TRUE]

setProduction(g, cityId, productionType) ==
  LET city == PieceOf(g, cityId)
  IN IF city.type # CITY THEN [g |-> g, result |-> FALSE]
     ELSE IF city.ownerId # g.currentPlayerIndex THEN [g |-> g, result |-> FALSE]
     ELSE [g |-> SetPiece(g, cityId,
                    [city EXCEPT !.production = productionType,
                                 !.productionProgress = 0,
                                 !.productionPaused = FALSE]),
           result |-> TRUE]

\* the tile under the settler is not looked at
canSettlerBuildCity_AnyTile(g, settler) ==
  IF settler.type # SETTLER THEN Reject("Not a settler")
  ELSE IF \E i \in DOMAIN g.pieces :
            /\ g.pieces[i].type = CITY
            /\ Abs(g.pieces[i].row - settler.row) <= 1
            /\ Abs(g.pieces[i].col - settler.col) <= 1
    THEN Reject("Too close to another city")
  ELSE [valid |-> TRUE, reason |-> ""]

canSettlerBuildCity(g, settler) ==
  IF settler.type # SETTLER THEN Reject("Not a settler")
  ELSE IF g.tileOwnership[settler.row][settler.col] # settler.ownerId
    THEN Reject("Must be on owned tile")
  ELSE IF \E i \in DOMAIN g.pieces :
            /\ g.pieces[i].type = CITY
            /\ Abs(g.pieces[i].row - settler.row) <= 1
            /\ Abs(g.pieces[i].col - settler.col) <= 1
    THEN Reject("Too close to another city")
  ELSE [valid |-> TRUE, reason |-> ""]

\* the distance to the other cities is not looked at
settlerBuildCity_CrowdsCities(g, settlerId) ==
  LET settler == PieceOf(g, settlerId)
  IN IF \/ settler.type # SETTLER
        \/ g.tileOwnership[settler.row][settler.col] # settler.ownerId
       THEN [g |-> g, result |-> FALSE]
     ELSE
       LET g1 == removePiece(g, settlerId)
           city == createPiece(g1, CITY, settler.ownerId, settler.row, settler.col)
           g2 == PlacePiece(g1, city)
       IN [g |-> [g2 EXCEPT !.tileOwnership[settler.row][settler.col] =
                              settler.ownerId],
           result |-> TRUE]

settlerBuildCity(g, settlerId) ==
  LET settler == PieceOf(g, settlerId)
  IN IF ~canSettlerBuildCity(g, settler).valid
       THEN [g |-> g, result |-> FALSE]
     ELSE
       LET g1 == removePiece(g, settlerId)
           city == createPiece(g1, CITY, settler.ownerId, settler.row, settler.col)
           g2 == PlacePiece(g1, city)
       IN [g |-> [g2 EXCEPT !.tileOwnership[settler.row][settler.col] =
                              settler.ownerId],
           result |-> TRUE]

SetRelation(g, a, b, rel) ==
  [g EXCEPT !.players[a].relations[b] = rel]

\* only the declaring side's entry is set
declareWar_OneSided(g, playerId, targetId) ==
  IF playerId = targetId THEN [g |-> g, result |-> FALSE]
  ELSE [g |-> SetRelation(g, playerId, targetId, "war"), result |-> TRUE]

\* a pending proposal of the target survives the declaration
declareWar_KeepsProposal(g, playerId, targetId) ==
  IF playerId = targetId THEN [g |-> g, result |-> FALSE]
  ELSE [g |-> IF g.players[targetId].relations[playerId] = "peace_proposed"
                THEN SetRelation(g, playerId, targetId, "war")
                ELSE SetRelation(SetRelation(g, playerId, targetId, "war"),
                                 targetId, playerId, "war"),
        result |-> TRUE]

declareWar(g, playerId, targetId) ==
  IF playerId = targetId THEN [g |-> g, result |-> FALSE]
  ELSE [g |-> SetRelation(SetRelation(g, playerId, targetId, "war"),
                          targetId, playerId, "war"),
        result |-> TRUE]

\* the earlier engine's proposal: taken as accepted at once
proposePeace_AutoAccept(g, playerId, targetId) ==
  IF playerId = targetId THEN [g |-> g, result |-> FALSE]
  ELSE [g |-> SetRelation(SetRelation(g, playerId, targetId, "peace"),
                          targetId, playerId, "peace"),
        result |-> TRUE]

proposePeace(g, playerId, targetId) ==
  IF playerId = targetId THEN [g |-> g, result |-> FALSE]
  ELSE [g |-> SetRelation(g, playerId, targetId, "peace_proposed"),
        result |-> TRUE]

\* acceptance that does not look for the proposal
acceptPeace_Unasked(g, playerId, targetId) ==
  IF playerId = targetId THEN [g |-> g, result |-> FALSE]
  ELSE [g |-> SetRelation(SetRelation(g, playerId, targetId, "peace"),
                          targetId, playerId, "peace"),
        result |-> TRUE]

acceptPeace(g, playerId, targetId) ==
  IF playerId = targetId THEN [g |-> g, result |-> FALSE]
  ELSE IF g.players[targetId].relations[playerId] # "peace_proposed"
    THEN [g |-> g, result |-> FALSE]
  ELSE [g |-> SetRelation(SetRelation(g, playerId, targetId, "peace"),
                          targetId, playerId, "peace"),
        result |-> TRUE]

\* Tiles adjacent to a tile of playerId and not owned by playerId.
ExpansionCandidates(g, playerId) ==
  {t \in Coords \X Coords :
     /\ g.tileOwnership[t[1]][t[2]] # playerId
     /\ \E i \in DOMAIN DIRECTIONS :
          LET r == t[1] - DIRECTIONS[i][1]
              c == t[2] - DIRECTIONS[i][2]
          IN isValidTile(r, c) /\ g.tileOwnership[r][c] = playerId}

\* The candidates the random index ranges over, in row-major order.
RECURSIVE TileSeq(_)
TileSeq(S) ==
  IF S = {} THEN <<>>
  ELSE LET t == CHOOSE x \in S :
                  \A y \in S : x[1] * BoardSize + x[2] <= y[1] * BoardSize + y[2]
       IN <<t>> \o TileSeq(S \ {t})

\* rnd stands for Math.random(): it selects one of the candidates.
\* unowned tiles are not preferred
expandTerritory_NoPreference(g, playerId, rnd) ==
  LET pool == TileSeq(ExpansionCandidates(g, playerId))
  IN IF Len(pool) = 0 THEN g
     ELSE
       LET chosen == pool[(rnd % Len(pool)) + 1]
           g1 == [g EXCEPT !.tileOwnership[chosen[1]][chosen[2]] = playerId]
           id == g1.board[chosen[1]][chosen[2]]
       IN IF id # NULL /\ PieceOf(g1, id).type = CITY
            THEN SetPiece(g1, id, [PieceOf(g1, id) EXCEPT !.ownerId = playerId])
            ELSE g1

\* the tile is claimed from under a city and the city keeps its owner
expandTerritory_LeavesCity(g, playerId, rnd) ==
  LET candidates == ExpansionCandidates(g, playerId)
      unowned == {t \in candidates : g.tileOwnership[t[1]][t[2]] = NULL}
      pool == TileSeq(IF unowned = {} THEN candidates ELSE unowned)
  IN IF Len(pool) = 0 THEN g
     ELSE
       LET chosen == pool[(rnd % Len(pool)) + 1]
       IN [g EXCEPT !.tileOwnership[chosen[1]][chosen[2]] = playerId]

expandTerritory(g, playerId, rnd) ==
  LET candidates == ExpansionCandidates(g, playerId)
      unowned == {t \in candidates : g.tileOwnership[t[1]][t[2]] = NULL}
      pool == TileSeq(IF unowned = {} THEN candidates ELSE unowned)
  IN IF Len(pool) = 0 THEN g
     ELSE
       LET chosen == pool[(rnd % Len(pool)) + 1]
           g1 == [g EXCEPT !.tileOwnership[chosen[1]][chosen[2]] = playerId]
           id == g1.board[chosen[1]][chosen[2]]
       IN IF id # NULL /\ PieceOf(g1, id).type = CITY
            THEN SetPiece(g1, id, [PieceOf(g1, id) EXCEPT !.ownerId = playerId])
            ELSE g1

\* the bonus arms the cities as well
applyTechBonus_ArmsCities(g, playerId) ==
  [g EXCEPT !.pieces = [i \in DOMAIN g.pieces |->
     LET p == g.pieces[i]
     IN IF p.ownerId # playerId THEN p
        ELSE IF p.type \in {CITY, WARRIOR}
          THEN [p EXCEPT !.maxHp = p.maxHp + 1, !.hp = p.hp + 1,
                         !.damage = p.damage + 1]
        ELSE p]]

applyTechBonus(g, playerId) ==
  [g EXCEPT !.pieces = [i \in DOMAIN g.pieces |->
     LET p == g.pieces[i]
     IN IF p.ownerId # playerId THEN p
        ELSE IF p.type = CITY
          THEN [p EXCEPT !.maxHp = p.maxHp + 1, !.hp = p.hp + 1]
        ELSE IF p.type = WARRIOR
          THEN [p EXCEPT !.maxHp = p.maxHp + 1, !.hp = p.hp + 1,
                         !.damage = p.damage + 1]
        ELSE p]]

spawnUnit(g, cityId, unitType) ==
  LET city == PieceOf(g, cityId)
      spawnTile == findAdjacentEmptyTile(g, city.row, city.col)
  IN IF spawnTile # NoTile
       THEN PlacePiece(g, createPiece(g, unitType, city.ownerId,
                                      spawnTile[1], spawnTile[2]))
       ELSE SetPiece(g, cityId,
              [city EXCEPT !.productionProgress = city.productionProgress - 1,
                           !.productionPaused = TRUE])

\* The switch of completeProduction.
CompleteEffect(g, cityId, rnd) ==
  LET city == PieceOf(g, cityId)
  IN CASE city.production = "DIPLOMACY" -> expandTerritory(g, city.ownerId, rnd)
       [] city.production = "SCIENCE" ->
            applyTechBonus(
              [g EXCEPT !.players[city.ownerId].techScore =
                           g.players[city.ownerId].techScore + 1],
              city.ownerId)
       [] city.production = "WARRIOR" -> spawnUnit(g, cityId, WARRIOR)
       [] city.production = "SETTLER" -> spawnUnit(g, cityId, SETTLER)
       [] city.production = "REPAIR" ->
            IF city.hp < city.maxHp
              THEN SetPiece(g, cityId, [city EXCEPT !.hp = city.hp + 1])
              ELSE g
       [] OTHER -> g

\* the repeat toggle is not consulted
completeProduction_AlwaysRepeats(g, cityId, rnd) ==
  LET production == PieceOf(g, cityId).production
      g1 == CompleteEffect(g, cityId, rnd)
      city == PieceOf(g1, cityId)
  IN IF production = "REPAIR" /\ city.hp >= city.maxHp
       THEN SetPiece(g1, cityId, [city EXCEPT !.production = NoProduction,
                                              !.productionProgress = 0])
       ELSE SetPiece(g1, cityId, [city EXCEPT !.productionProgress = 0])

completeProduction(g, cityId, rnd) ==
  LET production == PieceOf(g, cityId).production
      g1 == CompleteEffect(g, cityId, rnd)
      city == PieceOf(g1, cityId)
  IN IF city.repeatProduction THEN
       IF production = "REPAIR" /\ city.hp >= city.maxHp
         THEN SetPiece(g1, cityId, [city EXCEPT !.production = NoProduction,
                                                !.productionProgress = 0])
         ELSE SetPiece(g1, cityId, [city EXCEPT !.productionProgress = 0])
     ELSE SetPiece(g1, cityId, [city EXCEPT !.production = NoProduction,
                                            !.productionProgress = 0])

processProduction(g, cityId, rnd) ==
  LET city == PieceOf(g, cityId)
  IN IF city.production = NoProduction \/ city.productionPaused
       THEN SetPiece(g, cityId, [city EXCEPT !.productionPaused = FALSE])
     ELSE
       LET g1 == SetPiece(g, cityId,
                   [city EXCEPT !.productionProgress = city.productionProgress + 1])
       IN IF city.productionProgress + 1 >= PRODUCTION_TYPES[city.production].turns
            THEN completeProduction(g1, cityId, rnd)
            ELSE g1

\* Does processing this city draw a random number?
DrawsRandom(g, cityId) ==
  LET city == PieceOf(g, cityId)
  IN /\ city.production = "DIPLOMACY"
     /\ ~city.productionPaused
     /\ city.productionProgress + 1 >= PRODUCTION_TYPES["DIPLOMACY"].turns

\* pieces.forEach of endTurn: indices 1..n of the registry in order, each
\* piece examined as it is when visited; rnds is the stream of random draws.
\* (the game after each visit is bound through a singleton set, so that it
\* is computed once)
RECURSIVE ProductionLoop(_, _, _, _)
ProductionLoop(g, i, n, rnds) ==
  IF i > n THEN g
  ELSE
    LET piece == g.pieces[i]
        mine == piece.type = CITY /\ piece.ownerId = g.currentPlayerIndex
        draws == mine /\ DrawsRandom(g, piece.id)
        rest == IF draws THEN Tail(rnds) ELSE rnds
    IN CHOOSE out \in
         {ProductionLoop(g1, i + 1, n, rest) :
            g1 \in {IF mine
                      THEN processProduction(g, piece.id,
                                             IF draws THEN Head(rnds) ELSE 0)
                      ELSE g}} : TRUE

\* The do-while of endTurn; NULL when it would never exit.
\* the index runs past the roster instead of wrapping
RECURSIVE NextPlayerIndex_NoWrap(_, _, _)
NextPlayerIndex_NoWrap(g, idx, steps) ==
  LET next == idx + 1
  IN IF getPlayerCities(g, next) = {} /\ ~g.gameOver
       THEN IF steps >= NumPlayers(g) THEN NULL
            ELSE NextPlayerIndex_NoWrap(g, next, steps + 1)
       ELSE next

RECURSIVE NextPlayerIndex(_, _, _)
NextPlayerIndex(g, idx, steps) ==
  LET next == (idx + 1) % NumPlayers(g)
  IN IF getPlayerCities(g, next) = {} /\ ~g.gameOver
       THEN IF steps >= NumPlayers(g) THEN NULL
            ELSE NextPlayerIndex(g, next, steps + 1)
       ELSE next

\* the movement reset reaches every player's pieces
PassTurn_ResetsAll(g) ==
  LET reset1 == [g EXCEPT !.pieces = [i \in DOMAIN g.pieces |->
                   [g.pieces[i] EXCEPT !.hasMoved = FALSE]]]
  IN [reset1 EXCEPT
        !.currentPlayerIndex = NextPlayerIndex(reset1, g.currentPlayerIndex, 1),
        !.turnNumber = g.turnNumber + 1]

\* The rest of endTurn: movement reset, next player, turn number.
PassTurn(g) ==
  LET reset1 == [g EXCEPT !.pieces = [i \in DOMAIN g.pieces |->
                   IF g.pieces[i].ownerId = g.currentPlayerIndex
                     THEN [g.pieces[i] EXCEPT !.hasMoved = FALSE]
                     ELSE g.pieces[i]]]
  IN [reset1 EXCEPT
        !.currentPlayerIndex = NextPlayerIndex(reset1, g.currentPlayerIndex, 1),
        !.turnNumber = g.turnNumber + 1]

endTurn(g, rnds) ==
  CHOOSE out \in
    {PassTurn(g1) : g1 \in {ProductionLoop(g, 1, Len(g.pieces), rnds)}} : TRUE

\* Upper bound on the random draws one endTurn can make.
MaxDraws(g) ==
  Cardinality({i \in DOMAIN g.pieces :
     g.pieces[i].type = CITY /\ DrawsRandom(g, g.pieces[i].id)})

\* ---------------------------------------------------------------- setup
Corners == << <<0, 0>>, <<0, BoardSize - 1>>, <<BoardSize - 1, 0>>,
              <<BoardSize - 1, BoardSize - 1>> >>

NewPlayers(np) ==
  [i \in 0 .. (np - 1) |->
     [techScore |-> 0,
      relations |-> [j \in 0 .. (np - 1) |->
                       IF i = j THEN "undefined" ELSE "peace"]]]

reset(np) ==
  [players |-> NewPlayers(np), currentPlayerIndex |-> 0,
   board |-> createEmptyBoard, pieces |-> <<>>,
   tileOwnership |-> createEmptyBoard, gameOver |-> FALSE, winner |-> NULL,
   turnNumber |-> 0, nextId |-> 1]

\* startingPositions.forEach of placeStartingPieces, from player i on.
RECURSIVE placeStartingPieces(_, _, _)
placeStartingPieces(g, positions, i) ==
  IF i > Len(positions) THEN g
  ELSE
    LET pos == positions[i]
        g1 == PlacePiece(g, createPiece(g, CITY, i - 1, pos[1], pos[2]))
        g2 == [g1 EXCEPT !.tileOwnership[pos[1]][pos[2]] = i - 1]
        warriorPos == findAdjacentEmptyTile(g2, pos[1], pos[2])
        g3 == IF warriorPos # NoTile
                THEN PlacePiece(g2, createPiece(g2, WARRIOR, i - 1,
                                                warriorPos[1], warriorPos[2]))
                ELSE g2
    IN placeStartingPieces(g3, positions, i + 1)

\* positions: the first np corners after the shuffle.
setupGame(np, positions) == placeStartingPieces(reset(np), positions, 1)

StartingPositions(np) ==
  {[i \in 1 .. np |-> Corners[s[i]]] : s \in InjSeqs(1 .. 4, np)}

\* ------------------------------------------------------------------ AI
\* getValidMoves of the engine, which the AI builds its choices from: the
\* eight neighbours for a warrior; for a settler each orthogonal direction
\* up to three tiles, stopping at the first tile canMoveTo refuses.
getValidMoves(g, piece) ==
  IF piece.type = CITY \/ piece.hasMoved THEN {}
  ELSE IF piece.type = WARRIOR THEN
    {t \in {<<piece.row + dr, piece.col + dc>> : dr \in -1 .. 1, dc \in -1 .. 1}
            \ {<<piece.row, piece.col>>} :
       canMoveTo(g, piece, t[1], t[2]).valid}
  ELSE
    {<<piece.row + x[2] * DIRECTIONS[x[1]][1],
       piece.col + x[2] * DIRECTIONS[x[1]][2]>> :
       x \in {y \in (1 .. 4) \X (1 .. 3) :
                \A k \in 1 .. y[2] :
                  canMoveTo(g, piece, piece.row + k * DIRECTIONS[y[1]][1],
                            piece.col + k * DIRECTIONS[y[1]][2]).valid}}

\* The units handleUnitMoves works through: those of the AI's player that
\* have not moved.
AIUnits(g, playerId) ==
  {g.pieces[i].id : i \in {j \in DOMAIN g.pieces :
     /\ g.pieces[j].ownerId = playerId
     /\ g.pieces[j].type \in {SETTLER, WARRIOR}
     /\ ~g.pieces[j].hasMoved}}

\* executeAction of a stay: the AI marks the warrior itself.
aiStay(g, pieceId) ==
  SetPiece(g, pieceId, [PieceOf(g, pieceId) EXCEPT !.hasMoved = TRUE])

\* The thresholds of DIFFICULTY_CONFIG, in twentieths.
DIFFICULTY_CONFIG ==
  [d \in {"easy", "medium", "hard", "experimental"} |->
     CASE d = "easy" -> [peaceThreshold |-> 6, warThreshold |-> 16]
       [] d = "medium" -> [peaceThreshold |-> 10, warThreshold |-> 10]
       [] d = "hard" -> [peaceThreshold |-> 14, warThreshold |-> 6]
       [] OTHER -> [peaceThreshold |-> 12, warThreshold |-> 8]]

AI_STRATEGY == {"expansion", "research", "militarization", "defensive"}

RECURSIVE SumSeq(_)
SumSeq(q) == IF q = <<>> THEN 0 ELSE Head(q) + SumSeq(Tail(q))

\* getPlayerStrength: the military sub-score and the total, the total
\* doubled so that the half point of a tile stays an integer.
getPlayerStrength(g, playerId) ==
  LET mine(i, type) == g.pieces[i].ownerId = playerId /\ g.pieces[i].type = type
      military == SumSeq([i \in DOMAIN g.pieces |->
                    IF mine(i, WARRIOR)
                      THEN g.pieces[i].hp + g.pieces[i].damage * 2 ELSE 0])
      economic == SumSeq([i \in DOMAIN g.pieces |->
                    IF mine(i, CITY) THEN g.pieces[i].hp + 5 ELSE 0])
      settlers == Cardinality({i \in DOMAIN g.pieces : mine(i, SETTLER)})
      territory == Cardinality({t \in Coords \X Coords :
                                  g.tileOwnership[t[1]][t[2]] = playerId})
  IN [military |-> military,
      settlers |-> settlers,
      tiles |-> territory,
      total2 |-> 2 * (military + economic + settlers * 10
                      + g.players[playerId].techScore * 5) + territory]

\* getRelativeStrength: ratio > 1.2 strong, > 0.8 even, else weak; and
\* whether militaryRatio > 1.5.
getRelativeStrength(g, playerId, targetId) ==
  LET own == getPlayerStrength(g, playerId)
      target == getPlayerStrength(g, targetId)
      t2 == Max(target.total2, 2)
  IN [advantage |-> IF 5 * own.total2 > 6 * t2 THEN "strong"
                    ELSE IF 5 * own.total2 > 4 * t2 THEN "even" ELSE "weak",
      militaryAhead |-> 2 * own.military > 3 * Max(target.military, 1)]

\* The wars in the player's relations at this moment.
WarCount(g, playerId) ==
  Cardinality({o \in DOMAIN g.players :
                 g.players[playerId].relations[o] = "war"})

\* The sums of doubles in shouldDeclareWar and shouldProposePeace that tie
\* with the threshold in exact arithmetic but land above it in binary.
WarTies ==
  {<<"medium", "strong", FALSE, TRUE, 1, TRUE>>,
   <<"medium", "even", TRUE, TRUE, 1, TRUE>>,
   <<"hard", "strong", FALSE, FALSE, 1, TRUE>>,
   <<"hard", "strong", FALSE, TRUE, 1, FALSE>>,
   <<"hard", "even", FALSE, FALSE, 0, TRUE>>,
   <<"hard", "even", FALSE, TRUE, 0, FALSE>>,
   <<"hard", "even", TRUE, FALSE, 1, TRUE>>,
   <<"hard", "even", TRUE, TRUE, 1, FALSE>>}

\* The controller's own state and analysis that the engine state does not
\* fix: its strategy, the threat level of its cities (0: at most 0.5,
\* 1: at most 0.6, 2: above), the players with a vulnerable city, and its
\* difficulty.
AIMinds ==
  [strategy : AI_STRATEGY, threat : 0 .. 2,
   vulnerable : SUBSET (0 .. (MaxPlayers - 1)),
   difficulty : DOMAIN DIFFICULTY_CONFIG]

\* g0 is the state analyzeGameState saw, g the state at the call.
shouldDeclareWar(g0, g, me, targetId, mind) ==
  IF getPlayerCities(g0, targetId) = {} THEN FALSE
  ELSE
    LET rel == getRelativeStrength(g0, me, targetId)
        militarization == mind.strategy = "militarization"
        vulnerable == targetId \in mind.vulnerable
        wars == WarCount(g, me)
        warScore ==
          (CASE rel.advantage = "strong" -> 8
             [] rel.advantage = "even" -> 2
             [] OTHER -> -6)
          + (IF rel.militaryAhead THEN 6 ELSE 0)
          + (IF militarization THEN 4 ELSE 0)
          - wars * 6
          + (IF vulnerable THEN 4 ELSE 0)
        threshold == DIFFICULTY_CONFIG[mind.difficulty].warThreshold
    IN \/ warScore > threshold
       \/ /\ warScore = threshold
          /\ <<mind.difficulty, rel.advantage, rel.militaryAhead,
               militarization, wars, vulnerable>> \in WarTies

shouldAcceptPeace(g0, g, me, proposerId, mind) ==
  IF getPlayerCities(g0, proposerId) = {} THEN TRUE
  ELSE
    LET rel == getRelativeStrength(g0, me, proposerId)
        peaceScore ==
          10
          + (CASE rel.advantage = "weak" -> 6
               [] rel.advantage = "strong" -> -4
               [] OTHER -> 0)
          + (IF mind.threat >= 1 THEN 6 ELSE 0)
          + (IF mind.strategy = "defensive" THEN 4 ELSE 0)
          + (IF WarCount(g, me) > 1 THEN 4 ELSE 0)
    IN peaceScore > DIFFICULTY_CONFIG[mind.difficulty].peaceThreshold

shouldProposePeace(g0, g, me, targetId, mind) ==
  IF getPlayerCities(g0, targetId) = {} THEN FALSE
  ELSE
    LET rel == getRelativeStrength(g0, me, targetId)
        weak == rel.advantage = "weak"
        defensive == mind.strategy = "defensive"
        multi == WarCount(g, me) > 1
        peaceScore ==
          (IF weak THEN 8 ELSE 0)
          + (IF mind.threat >= 2 THEN 6 ELSE 0)
          + (IF defensive THEN 4 ELSE 0)
          + (IF multi THEN 5 ELSE 0)
        threshold == DIFFICULTY_CONFIG[mind.difficulty].peaceThreshold
    IN \/ peaceScore > threshold
       \/ /\ peaceScore = threshold
          /\ mind.difficulty = "experimental"
          /\ weak /\ mind.threat < 2 /\ defensive /\ ~multi

\* The three loops of handleDiplomacy, each over the other players in
\* index order, from player otherId on.
RECURSIVE AcceptLoop(_, _, _, _, _)
AcceptLoop(g0, g, me, otherId, mind) ==
  IF otherId >= NumPlayers(g) THEN g
  ELSE AcceptLoop(g0,
         IF /\ otherId # me
            /\ g0.players[otherId].relations[me] = "peace_proposed"
            /\ shouldAcceptPeace(g0, g, me, otherId, mind)
           THEN acceptPeace(g, me, otherId).g ELSE g,
         me, otherId + 1, mind)

RECURSIVE WarLoop(_, _, _, _, _)
WarLoop(g0, g, me, otherId, mind) ==
  IF otherId >= NumPlayers(g) THEN g
  ELSE WarLoop(g0,
         IF /\ otherId # me
            /\ getPlayerCities(g, otherId) # {}
            /\ g.players[me].relations[otherId] = "peace"
            /\ shouldDeclareWar(g0, g, me, otherId, mind)
           THEN declareWar(g, me, otherId).g ELSE g,
         me, otherId + 1, mind)

RECURSIVE PeaceLoop(_, _, _, _, _)
PeaceLoop(g0, g, me, otherId, mind) ==
  IF otherId >= NumPlayers(g) THEN g
  ELSE PeaceLoop(g0,
         IF /\ otherId # me
            /\ getPlayerCities(g, otherId) # {}
            /\ g.players[me].relations[otherId] = "war"
            /\ shouldProposePeace(g0, g, me, otherId, mind)
           THEN proposePeace(g, me, otherId).g ELSE g,
         me, otherId + 1, mind)

handleDiplomacy(g, me, mind) ==
  CHOOSE out \in
    {PeaceLoop(g, g2, me, 0, mind) :
       g2 \in {WarLoop(g, g1, me, 0, mind) :
                 g1 \in {AcceptLoop(g, g, me, 0, mind)}}} : TRUE

\* The options handleCityProductions scores for a city; spots: the analysis
\* found an expansion spot.
ProductionOptions(g0, me, city, spots) ==
  {"WARRIOR", "SCIENCE"}
  \cup (IF spots /\ getPlayerStrength(g0, me).settlers < 2
          THEN {"SETTLER"} ELSE {})
  \cup (IF getPlayerStrength(g0, me).tiles < 15 THEN {"DIPLOMACY"} ELSE {})
  \cup (IF city.hp < city.maxHp THEN {"REPAIR"} ELSE {})

\* handleCityProductions from registry index i on.  draws[id] is, for the
\* city id, whether Math.random() < 0.7 came out and the option that the
\* scores and the impairment draw left as chosen (the scores are left open).
RECURSIVE handleCityProductions(_, _, _, _, _, _)
handleCityProductions(g0, g, i, me, spots, draws) ==
  IF i > Len(g.pieces) THEN g
  ELSE
    LET city == g.pieces[i]
        keep == draws[city.id][1]
        chosen == draws[city.id][2]
    IN handleCityProductions(g0,
         IF city.type # CITY \/ city.ownerId # me THEN g
         ELSE IF city.production # NoProduction /\ keep THEN g
         ELSE IF city.production # chosen
           THEN setProduction(g, city.id, chosen).g
         ELSE g,
         i + 1, me, spots, draws)

\* simulateMove: the outcome the engine forecasts for a move, computed
\* from the piece, the target piece and the target tile without touching
\* the game.  combat FALSE: result.combat is null.
NoForecast ==
  [valid |-> FALSE, combat |-> FALSE, defender |-> NULL,
   defenderHpAfter |-> 0, defenderDestroyed |-> FALSE,
   cityCapture |-> FALSE, pieceDestroyed |-> NULL,
   territoryGained |-> FALSE, ownPieceLost |-> FALSE]

simulateMove(g, piece, targetRow, targetCol) ==
  IF ~canMoveTo(g, piece, targetRow, targetCol).valid THEN NoForecast
  ELSE
    LET targetId == g.board[targetRow][targetCol]
        fights == targetId # NULL /\ piece.type = WARRIOR
        targetPiece == PieceOf(g, targetId)
        falls == fights /\ targetPiece.hp <= piece.damage
        cityCapture == falls /\ targetPiece.type = CITY
        tileOwner == g.tileOwnership[targetRow][targetCol]
    IN [NoForecast EXCEPT
          !.valid = TRUE,
          !.combat = fights,
          !.defender = IF fights THEN targetId ELSE NULL,
          !.defenderHpAfter = IF fights THEN targetPiece.hp - piece.damage ELSE 0,
          !.defenderDestroyed = falls /\ ~cityCapture,
          !.cityCapture = cityCapture,
          !.pieceDestroyed = IF falls /\ ~cityCapture THEN targetId ELSE NULL,
          !.territoryGained = piece.type = WARRIOR /\ tileOwner # piece.ownerId]

Cheb(r1, c1, r2, c2) == Max(Abs(r1 - r2), Abs(c1 - c2))

\* ------------------------------------------- goal-driven controller
\* The CivChessAI instance that plays player AIPlayer: its personality and
\* its map from warrior id to objective.
AIPlayer == 0
AI_PERSONALITY == {"expansionist", "militaristic"}
TrackingWindow == 5

NewController(personality) ==
  [personality |-> personality, warriorObjectives |-> [id \in {} |-> <<>>]]

getDistance(from, to) == Cheb(from.row, from.col, to.row, to.col)

\* The players the controller's snapshot shows at war with it, in index
\* order.
getEnemies(g, me) ==
  SelectSeq([i \in 1 .. NumPlayers(g) |-> i - 1],
            LAMBDA o : g.players[me].relations[o] = "war")

\* The registry indexes of player o's pieces of a type, in registry order.
PiecesOfType(g, o, type) ==
  SelectSeq([i \in 1 .. Len(g.pieces) |-> i],
            LAMBDA i : g.pieces[i].ownerId = o /\ g.pieces[i].type = type)

RECURSIVE Flatten(_)
Flatten(qs) == IF qs = <<>> THEN <<>> ELSE Head(qs) \o Flatten(Tail(qs))

\* Ten times maxHp times the vulnerability getStrategicPositions gives a
\* city of a player at war with me: the share of hp lost, plus one half
\* when no warrior of its owner stands within two tiles.  (No city within
\* the bounds has a maxHp that makes the share a rounded 0.3.)
Vulnerability10(g, city) ==
  10 * (city.maxHp - city.hp)
    + (IF \A j \in DOMAIN g.pieces :
            ~(/\ g.pieces[j].type = WARRIOR
              /\ g.pieces[j].ownerId = city.ownerId
              /\ getDistance(g.pieces[j], city) <= 2)
         THEN 5 * city.maxHp ELSE 0)

\* getStrategicPositions(...).vulnerableCities before the sort, as registry
\* indexes.
VulnerableCities(g, me) ==
  SelectSeq([i \in 1 .. Len(g.pieces) |-> i],
    LAMBDA i :
      LET city == g.pieces[i]
      IN /\ city.type = CITY /\ city.ownerId # me
         /\ g.players[me].relations[city.ownerId] = "war"
         /\ Vulnerability10(g, city) > 3 * city.maxHp)

\* vulnerableCities[0] after the stable sort by falling vulnerability.
MostVulnerable(g, q) ==
  g.pieces[q[CHOOSE k \in DOMAIN q :
    \A m \in DOMAIN q :
      LET a == g.pieces[q[k]]
          b == g.pieces[q[m]]
          va == Vulnerability10(g, a) * b.maxHp
          vb == Vulnerability10(g, b) * a.maxHp
      IN va > vb \/ (va = vb /\ k <= m)]]

\* The first of the pieces at indexes q closest to the warrior, as a set.
findClosestTarget(g, warrior, q) ==
  {g.pieces[q[k]] : k \in {k \in DOMAIN q :
     \A m \in DOMAIN q :
       \/ getDistance(warrior, g.pieces[q[k]]) < getDistance(warrior, g.pieces[q[m]])
       \/ getDistance(warrior, g.pieces[q[k]]) = getDistance(warrior, g.pieces[q[m]])
          /\ k <= m}}

\* An objective as assignWarriorObjective builds it; hp NULL: the target
\* is a position, not a piece.
Objective(warrior, type, id, row, col, hp) ==
  [target |-> [id |-> id, row |-> row, col |-> col, hp |-> hp],
   type |-> type, turnsTracking |-> 0,
   initialDistance |-> Cheb(warrior.row, warrior.col, row, col),
   initialTargetHp |-> hp]

PieceObjective(warrior, type, t) ==
  Objective(warrior, type, t.id, t.row, t.col, t.hp)

\* assignWarriorObjective, as the set of objectives it returns (empty when
\* it returns null).  post: the position the peacetime searches found for
\* this warrior, <<>> when they found none.
assignWarriorObjective(g, me, personality, warrior, post) ==
  LET enemies == getEnemies(g, me)
  IN IF enemies # <<>> THEN
       IF personality = "expansionist" THEN
         LET enemyWarriors ==
               Flatten([k \in DOMAIN enemies |->
                          PiecesOfType(g, enemies[k], WARRIOR)])
             vulnerableCities == VulnerableCities(g, me)
         IN IF enemyWarriors # <<>>
              THEN {PieceObjective(warrior, "demilitarize", t) :
                      t \in findClosestTarget(g, warrior, enemyWarriors)}
            ELSE IF vulnerableCities # <<>>
              THEN {Objective(warrior, "conquer", NULL,
                              MostVulnerable(g, vulnerableCities).row,
                              MostVulnerable(g, vulnerableCities).col, NULL)}
            ELSE {}
       ELSE
         LET withCities == SelectSeq(enemies,
               LAMBDA o : PiecesOfType(g, o, CITY) # <<>>)
         IN IF withCities = <<>> THEN {}
            ELSE {PieceObjective(warrior, "conquer", t) :
                    t \in findClosestTarget(g, warrior,
                            PiecesOfType(g, withCities[1], CITY))}
     ELSE IF post = <<>> THEN {}
     ELSE {Objective(warrior, post[1], NULL, post[2], post[3], NULL)}

\* evaluateObjectiveProgress: the warrior is closer to the remembered
\* target than at the start of the window, or the target piece has less hp.
evaluateObjectiveProgress(g, warrior, objective) ==
  \/ getDistance(warrior, objective.target) < objective.initialDistance
  \/ /\ objective.target.hp # NULL /\ objective.initialTargetHp # NULL
     /\ HasPiece(g, objective.target.id)
     /\ PieceOf(g, objective.target.id).hp < objective.initialTargetHp

\* updateWarriorObjectives: the map after the loop over the controller's
\* warriors and the clean-up of warriors that are gone.
updateWarriorObjectives(g, me, c, post) ==
  LET old == c.warriorObjectives
      warriors == {i \in DOMAIN g.pieces :
                     g.pieces[i].ownerId = me /\ g.pieces[i].type = WARRIOR}
      tracked(w) == [old[w.id] EXCEPT !.turnsTracking = @ + 1]
      expired(w) == w.id \in DOMAIN old
                    /\ tracked(w).turnsTracking >= TrackingWindow
      dropped(w) == expired(w) /\ ~evaluateObjectiveProgress(g, w, tracked(w))
      renewed(w) ==
        [tracked(w) EXCEPT
           !.turnsTracking = 0,
           !.initialDistance = getDistance(w, tracked(w).target),
           !.initialTargetHp = IF tracked(w).target.hp # NULL
                                 THEN tracked(w).target.hp ELSE @]
      assigned(w) == assignWarriorObjective(g, me, c.personality, w, post)
      entry(w) ==
        IF w.id \notin DOMAIN old \/ dropped(w)
          THEN IF assigned(w) # {} THEN assigned(w)
               ELSE IF w.id \in DOMAIN old THEN {tracked(w)} ELSE {}
        ELSE IF expired(w) THEN {renewed(w)}
        ELSE {tracked(w)}
      kept == {i \in warriors : entry(g.pieces[i]) # {}}
  IN [c EXCEPT !.warriorObjectives =
        [id \in {g.pieces[i].id : i \in kept} |->
           CHOOSE o \in entry(PieceOf(g, id)) : TRUE]]

\* -------------------------------------------------------------- actions
Apply(g) ==
  /\ players' = g.players
  /\ currentPlayerIndex' = g.currentPlayerIndex
  /\ board' = g.board
  /\ pieces' = g.pieces
  /\ tileOwnership' = g.tileOwnership
  /\ gameOver' = g.gameOver
  /\ winner' = g.winner
  /\ turnNumber' = g.turnNumber
  /\ nextId' = g.nextId
  /\ controller' = controller

PieceIds == {pieces[i].id : i \in DOMAIN pieces}
Targets == (-1) .. BoardSize

\* The shuffles a move can consume: those of the target's owner.
MoveShuffles(id, row, col) ==
  IF isValidTile(row, col) /\ board[row][col] # NULL
       /\ PieceOf(G, board[row][col]).type = CITY
    THEN Shuffles(G, PieceOf(G, board[row][col]).ownerId)
    ELSE {<<>>}

MovePiece(id, row, col, shuffle) ==
  LET r == movePiece(G, id, row, col, shuffle)
  IN Apply(r.g) /\ last' = r.result

DeclareWar(playerId, targetId) ==
  LET r == declareWar(G, playerId, targetId)
  IN Apply(r.g) /\ last' = Returned("declareWar", r.result)

ProposePeace(playerId, targetId) ==
  LET r == proposePeace(G, playerId, targetId)
  IN Apply(r.g) /\ last' = Returned("proposePeace", r.result)

AcceptPeace(playerId, targetId) ==
  LET r == acceptPeace(G, playerId, targetId)
  IN Apply(r.g) /\ last' = Returned("acceptPeace", r.result)

SetProduction(cityId, productionType) ==
  LET r == setProduction(G, cityId, productionType)
  IN Apply(r.g) /\ last' = Returned("setProduction", r.result)

SettlerBuildCity(settlerId) ==
  LET r == settlerBuildCity(G, settlerId)
  IN Apply(r.g) /\ last' = Returned("settlerBuildCity", r.result)

\* One unit of the AI playing the player to move: the choice applyImpairment
\* returns is any entry of the unit's list (the scores are left open).
AIMove(id, row, col, shuffle) ==
  /\ id \in AIUnits(G, currentPlayerIndex)
  /\ <<row, col>> \in getValidMoves(G, PieceOf(G, id))
  /\ LET r == movePiece(G, id, row, col, shuffle)
     IN Apply(r.g) /\ last' = [r.result EXCEPT !.cmd = "executeAction"]

AIBuildCity(id) ==
  /\ id \in AIUnits(G, currentPlayerIndex)
  /\ PieceOf(G, id).type = SETTLER
  /\ canSettlerBuildCity(G, PieceOf(G, id)).valid
  /\ LET r == settlerBuildCity(G, id)
     IN Apply(r.g) /\ last' = Returned("executeAction", r.result)

AIStay(id) ==
  /\ id \in AIUnits(G, currentPlayerIndex)
  /\ PieceOf(G, id).type = WARRIOR
  /\ Apply(aiStay(G, id))
  /\ last' = Returned("executeAction", TRUE)

\* executeTurn of the controller of the player to move, step 3: the whole
\* of handleDiplomacy, at the start of the turn.
AIHandleDiplomacy(mind) ==
  /\ last.cmd \in {"setupGame", "endTurn"}
  /\ Apply(handleDiplomacy(G, currentPlayerIndex, mind))
  /\ last' = Returned("handleDiplomacy", TRUE)

\* executeTurn, step 4: the whole of handleCityProductions.
AIHandleCityProductions(spots, draws) ==
  /\ last.cmd = "handleDiplomacy"
  /\ \A i \in getPlayerCities(G, currentPlayerIndex) :
       draws[pieces[i].id][2]
         \in ProductionOptions(G, currentPlayerIndex, pieces[i], spots)
  /\ \E g1 \in {handleCityProductions(G, G, 1, currentPlayerIndex, spots, draws)} :
       /\ Apply(g1)
       /\ last' = Returned("handleCityProductions", g1 # G)

\* A lookahead query: the game is left alone and the forecast is returned.
SimulateMove(id, row, col) ==
  /\ Apply(G)
  /\ last' = [Returned("simulateMove", FALSE) EXCEPT
                !.success = simulateMove(G, PieceOf(G, id), row, col).valid,
                !.hasCombat = simulateMove(G, PieceOf(G, id), row, col).combat]

\* executeTurn of the goal-driven controller, objective tracking step.
UpdateWarriorObjectives(post) ==
  /\ currentPlayerIndex = AIPlayer /\ ~gameOver
  /\ last.cmd \in {"setupGame", "endTurn"}
  /\ controller' = updateWarriorObjectives(G, AIPlayer, controller, post)
  /\ UNCHANGED <<players, currentPlayerIndex, board, pieces, tileOwnership,
                 gameOver, winner, turnNumber, nextId>>
  /\ last' = Returned("updateWarriorObjectives", TRUE)

\* The game is followed for MaxTurn turns.
InPlay == turnNumber < StartTurn + MaxTurn

EndTurn(rnds) ==
  /\ InPlay
  /\ \E g1 \in {endTurn(G, rnds)} :
       /\ g1.currentPlayerIndex # NULL
       /\ Apply(g1)
  /\ last' = Returned("endTurn", TRUE)

AnyMove == \E id \in PieceIds, row \in Targets, col \in Targets :
             \E shuffle \in MoveShuffles(id, row, col) :
               MovePiece(id, row, col, shuffle)
AnyDeclareWar == \E a \in DOMAIN players, b \in DOMAIN players : DeclareWar(a, b)
AnyProposePeace == \E a \in DOMAIN players, b \in DOMAIN players : ProposePeace(a, b)
AnyAcceptPeace == \E a \in DOMAIN players, b \in DOMAIN players : AcceptPeace(a, b)
AnySetProduction == \E id \in PieceIds, k \in PRODUCTION_KEYS : SetProduction(id, k)
AnySettlerBuildCity == \E id \in PieceIds : SettlerBuildCity(id)
AnyEndTurn == \E rnds \in [1 .. MaxDraws(G) -> 0 .. MaxDraw] : EndTurn(rnds)

AnyAIHandleDiplomacy == \E mind \in AIMinds : AIHandleDiplomacy(mind)
AnyAIHandleCityProductions ==
  \E spots \in BOOLEAN :
    \E draws \in [{pieces[i].id : i \in getPlayerCities(G, currentPlayerIndex)}
                    -> BOOLEAN \X PRODUCTION_KEYS] :
      AIHandleCityProductions(spots, draws)

AnySimulateMove == \E id \in PieceIds, row \in Targets, col \in Targets :
                     SimulateMove(id, row, col)
AnyUpdateWarriorObjectives ==
  \E post \in {<<>>} \cup {<<"border", rc, rc>> : rc \in {BoardSize - 2, BoardSize - 1}} :
    /\ IF post = <<>> THEN TRUE ELSE board[post[2]][post[3]] = NULL
    /\ UpdateWarriorObjectives(post)

AnyAIMove == \E id \in PieceIds, row \in Coords, col \in Coords :
               \E shuffle \in MoveShuffles(id, row, col) :
                 AIMove(id, row, col, shuffle)
AnyAIBuildCity == \E id \in PieceIds : AIBuildCity(id)
AnyAIStay == \E id \in PieceIds : AIStay(id)

Fresh == Returned("setupGame", TRUE)

\* The engine in state g and the goal-driven controller of player
\* AIPlayer in state c.
InitWith(g, c) ==
  /\ players = g.players
  /\ currentPlayerIndex = g.currentPlayerIndex
  /\ board = g.board
  /\ pieces = g.pieces
  /\ tileOwnership = g.tileOwnership
  /\ gameOver = g.gameOver
  /\ winner = g.winner
  /\ turnNumber = g.turnNumber
  /\ nextId = g.nextId
  /\ last = Fresh
  /\ controller = c

InitFrom(g) == InitWith(g, NewController("expansionist"))

\* ------------------------------------------------------ mid-game states
\* A game some turns after setupGame: the cities stand where setupGame put
\* them (the first np corners), players have completed Science, warriors
\* have been produced and have marched, cities have been hit.
MidGame(np, techs, cur) ==
  [reset(np) EXCEPT
     !.players = [i \in 0 .. (np - 1) |->
                    [NewPlayers(np)[i] EXCEPT !.techScore = techs[i]]],
     !.currentPlayerIndex = cur,
     !.turnNumber = StartTurn]

\* A piece created by createPiece that has since lost dmg hp.
Put(g, type, ownerId, row, col, dmg, moved) ==
  LET p == createPiece(g, type, ownerId, row, col)
  IN PlacePiece(g, [p EXCEPT !.hp = p.hp - dmg, !.hasMoved = moved])

RECURSIVE PutAll(_, _)
PutAll(g, ps) ==
  IF ps = <<>> THEN g
  ELSE PutAll(Put(g, Head(ps)[1], Head(ps)[2], Head(ps)[3], Head(ps)[4],
                  Head(ps)[5], Head(ps)[6]), Tail(ps))

\* Territory: "start" = each city's own tile; "claimed" = Diplomacy has run
\* until every tile belongs to the owner of the nearest city.
Territory(g, terr) ==
  LET cities == {i \in DOMAIN g.pieces : g.pieces[i].type = CITY}
      dist(i, r, c) == Cheb(g.pieces[i].row, g.pieces[i].col, r, c)
      nearest(r, c) == CHOOSE i \in cities : \A j \in cities :
                         \/ dist(i, r, c) < dist(j, r, c)
                         \/ dist(i, r, c) = dist(j, r, c) /\ i >= j
  IN [g EXCEPT !.tileOwnership =
        [r \in Coords |-> [c \in Coords |->
           IF terr = "claimed" THEN g.pieces[nearest(r, c)].ownerId
           ELSE IF g.board[r][c] # NULL /\ PieceOf(g, g.board[r][c]).type = CITY
             THEN PieceOf(g, g.board[r][c]).ownerId
           ELSE NULL]]]

\* Free tiles from the last row upwards, where reinforcements gather.
RECURSIVE RearTiles(_, _)
RearTiles(g, n) ==
  IF n = 0 THEN <<>>
  ELSE LET free == {t \in Coords \X Coords : g.board[t[1]][t[2]] = NULL}
           t == CHOOSE x \in free : \A y \in free :
                  x[1] * BoardSize + x[2] >= y[1] * BoardSize + y[2]
       IN <<t>> \o RearTiles([g EXCEPT !.board[t[1]][t[2]] = 0], n - 1)

\* Duel: player 0's warrior has marched next to player 1's city, which has
\* lost cityDmg hp; player 1 holds w warriors and s settlers in all, a third
\* player's warrior stands in the middle.  ready1: player 1's warrior at
\* home has yet to move this turn; ready: so have its other units.
Duel(np, techs, cur, cityDmg, w, s, terr, ready1, ready) ==
  LET front == PutAll(MidGame(np, techs, cur),
                 << <<CITY, 0, 0, 0, 0, FALSE>>,
                    <<CITY, 1, 0, BoardSize - 1, cityDmg, FALSE>>,
                    <<WARRIOR, 0, 1, BoardSize - 2, 0, FALSE>> >>
                 \o (IF np > 2 THEN << <<CITY, 2, BoardSize - 1, 0, 0, FALSE>>,
                                       <<WARRIOR, 2, 1, BoardSize - 3, 0, FALSE>> >>
                     ELSE <<>>)
                 \o (IF w > 0 THEN << <<WARRIOR, 1, 1, BoardSize - 1, 0, ~ready1>> >>
                     ELSE <<>>))
      rear == RearTiles(front, (IF w > 0 THEN w - 1 ELSE 0) + s)
      army == [i \in DOMAIN rear |->
                 <<IF i <= s THEN SETTLER ELSE WARRIOR, 1,
                   rear[i][1], rear[i][2], 0, ~ready>>]
  IN Territory(PutAll(front, army), terr)

AtWar(g, a, b) == declareWar(g, a, b).g

NoTech(np) == [i \in 0 .. (np - 1) |-> 0]

\* Two players, neither or one of them ahead in technology, the city fresh
\* or one hit from capture.
DuelInit ==
  \E techs \in {NoTech(2), [NoTech(2) EXCEPT ![0] = MaxTech],
                 [NoTech(2) EXCEPT ![1] = MaxTech]} :
    \E cityDmg \in {0, 3 + techs[1]} :
      InitFrom(Duel(2, techs, 0, cityDmg, 1, 0, "start", TRUE, TRUE))

\* Two players and a settler of player 1 that can still move.
SettlerInit ==
  InitFrom(Duel(2, NoTech(2), 0, 0, 1, 1, "start", TRUE, TRUE))

\* Player 1, at war, about to lose its last city: with settlers only, with
\* one warrior, or with a full army and all its settlers.
ConquestInit ==
  \E cur \in 0 .. 1 :
    \E ws \in {<<0, MaxSettlers>>, <<1, 0>>, <<MaxArmy, MaxSettlers>>} :
      InitFrom(AtWar(Duel(2, NoTech(2), cur, 3, ws[1], ws[2], "start",
                          FALSE, FALSE),
                     0, 1))

\* Every city runs production kind, one endTurn short of completion.
WithProduction(g, kind) ==
  [g EXCEPT !.pieces = [i \in DOMAIN g.pieces |->
     IF g.pieces[i].type = CITY /\ kind # NoProduction
       THEN [g.pieces[i] EXCEPT
               !.production = kind,
               !.productionProgress = PRODUCTION_TYPES[kind].turns - 1]
       ELSE g.pieces[i]]]

\* Player 1 holds a second city in the far corner; its cities are producing.
ColonyInit ==
  \E cur \in 0 .. 1 :
    InitFrom(WithProduction(
      Territory(
        Put(Duel(2, NoTech(2), cur, 3, 1, 0, "start", FALSE, FALSE),
            CITY, 1, BoardSize - 1, 0, 0, FALSE),
        "start"),
      "WARRIOR"))

\* Three players on fully claimed territory.
TripleInit ==
  InitFrom(Duel(3, NoTech(3), 0, 3, 1, 0, "claimed", FALSE, FALSE))

MoveInit ==
  DuelInit \/ SettlerInit \/ ConquestInit \/ ColonyInit \/ TripleInit

MoveNext ==
  \/ AnyMove
  \/ AnyDeclareWar

SpecMove == MoveInit /\ [][MoveNext]_vars

\* Two players at war, late in a turn: every city about to complete a
\* production of the same kind, player 0's warrior next to player 1's city.
HarvestInit ==
  \E cur \in 0 .. 1, kind \in PRODUCTION_KEYS \cup {NoProduction} :
    InitFrom(WithProduction(
      AtWar(Duel(2, NoTech(2), cur, 3, 1, 0, "start", FALSE, FALSE), 0, 1),
      kind))

\* The same on claimed territory in player 0's turn, player 1 holding a
\* settler: player 0 has completed one more Diplomacy, whose draw was rnd,
\* and is about to complete the next.
EncroachInit ==
  \E rnd \in 0 .. MaxDraw :
    InitFrom(WithProduction(
      expandTerritory(
        AtWar(Duel(2, NoTech(2), 0, 3, 1, 1, "claimed", FALSE, FALSE), 0, 1),
        0, rnd),
      "DIPLOMACY"))

TurnInit == HarvestInit \/ EncroachInit

TurnNext ==
  \/ InPlay /\ AnyMove
  \/ AnyEndTurn
  \/ InPlay /\ AnySettlerBuildCity

SpecTurn == TurnInit /\ [][TurnNext]_vars

\* ------------------------------------------------------- every roster
\* A game of np players some turns in: the cities stand where setupGame put
\* them, corner i now belongs to owner[i] together with its guard, and a
\* player who holds no corner has been eliminated.
Roster(np, owner, cur) ==
  LET g == setupGame(np, [i \in 1 .. np |-> Corners[i]])
      now(o) == IF o = NULL THEN NULL ELSE owner[o + 1]
  IN [g EXCEPT
        !.pieces = [i \in DOMAIN g.pieces |->
                      [g.pieces[i] EXCEPT !.ownerId = now(@),
                                          !.hasMoved = TRUE]],
        !.tileOwnership = [r \in Coords |-> [c \in Coords |->
                             now(g.tileOwnership[r][c])]],
        !.currentPlayerIndex = cur,
        !.turnNumber = StartTurn]

\* The last city fell to a capture (checkVictory has run) or to a Diplomacy
\* expansion (it has not).
RosterInit ==
  \E np \in 2 .. MaxPlayers :
    \E owner \in [1 .. np -> 0 .. (np - 1)], cur \in 0 .. (np - 1) :
      \E g \in {Roster(np, owner, cur), checkVictory(Roster(np, owner, cur))} :
        InitFrom(g)

RoundNext == AnyEndTurn

SpecRound == RosterInit /\ [][RoundNext]_vars

\* ---------------------------------------------------------- diplomacy
\* Three players, everyone at war with everyone, on claimed territory.
DiplomacyInit ==
  InitFrom(AtWar(AtWar(AtWar(
    Duel(3, NoTech(3), 0, 0, 1, 0, "claimed", TRUE, TRUE), 0, 1), 0, 2), 1, 2))

DiplomacyNext ==
  \/ AnyDeclareWar
  \/ AnyProposePeace
  \/ AnyAcceptPeace

SpecDiplomacy == DiplomacyInit /\ [][DiplomacyNext]_vars

\* ------------------------------------------------------------ crowding
\* Player 0 has a colony at (2, 1) whose eight neighbours, all but the tile
\* `free` away (0: none), hold its warriors; a settler waits at (0, 1), so
\* that the corner city is hemmed in with it.  Every city is one turn from
\* completing `kind`, with the repeat toggle on or off.
Crowded(cur, kind, repeat, free) ==
  LET Guard(i) == <<WARRIOR, 0, 2 + DIRECTIONS[i][1], 1 + DIRECTIONS[i][2],
                    0, FALSE>>
      Stays(p) == free = 0 \/ <<p[3], p[4]>> # <<Guard(free)[3], Guard(free)[4]>>
      g == PutAll(MidGame(2, NoTech(2), cur),
             << <<CITY, 0, 0, 0, 0, FALSE>>,
                <<CITY, 1, 0, BoardSize - 1, 0, FALSE>>,
                <<CITY, 0, 2, 1, 0, FALSE>>,
                <<SETTLER, 0, 0, 1, 0, FALSE>> >>
             \o SelectSeq([i \in DOMAIN DIRECTIONS |-> Guard(i)], Stays))
      busy == WithProduction(Territory(g, "start"), kind)
  IN [busy EXCEPT !.pieces = [i \in DOMAIN busy.pieces |->
        IF busy.pieces[i].type = CITY
          THEN [busy.pieces[i] EXCEPT !.repeatProduction = repeat]
          ELSE busy.pieces[i]]]

CrowdedInit ==
  \E cur \in 0 .. 1, kind \in {"WARRIOR", "SETTLER"}, repeat \in BOOLEAN,
     free \in 0 .. Len(DIRECTIONS) :
    InitFrom(Crowded(cur, kind, repeat, free))

ProduceNext ==
  \/ AnyEndTurn
  \/ InPlay /\ AnySetProduction

SpecProduce == CrowdedInit /\ [][ProduceNext]_vars

\* ------------------------------------------------------------ settling
\* Two players at peace or at war, player 1 holding its settlers and no other
\* unit, on bare or on claimed territory.
SettleInit ==
  \E terr \in {"start", "claimed"}, war \in BOOLEAN :
    \E g \in {Duel(2, NoTech(2), 1, 0, 0, MaxSettlers, terr, TRUE, TRUE)} :
      InitFrom(IF war THEN AtWar(g, 0, 1) ELSE g)

SettleNext ==
  \/ AnyMove
  \/ AnySettlerBuildCity

SpecSettle == SettleInit /\ [][SettleNext]_vars

\* ------------------------------------------------------------ blockade
\* Three players; player 0's warrior stands at (1, 1), and each of the tiles
\* (1, 2) and (2, 1) beside its way to (2, 2) is empty or holds a warrior of
\* any player or a settler of player 1, all of which have moved.
Posts == {<<>>} \cup {<<WARRIOR, o>> : o \in 0 .. 2} \cup {<<SETTLER, 1>>}

BlockadeInit ==
  \E a \in Posts, b \in Posts, war \in BOOLEAN :
    \E g \in {Territory(PutAll(MidGame(3, NoTech(3), 0),
                 << <<CITY, 0, 0, 0, 0, FALSE>>,
                    <<CITY, 1, 0, BoardSize - 1, 0, FALSE>>,
                    <<CITY, 2, BoardSize - 1, 0, 0, FALSE>>,
                    <<WARRIOR, 0, 1, 1, 0, FALSE>> >>
                 \o (IF a = <<>> THEN <<>>
                     ELSE << <<a[1], a[2], 1, 2, 0, TRUE>> >>)
                 \o (IF b = <<>> THEN <<>>
                     ELSE << <<b[1], b[2], 2, 1, 0, TRUE>> >>)), "start")} :
      InitFrom(IF war THEN AtWar(AtWar(g, 0, 1), 0, 2) ELSE g)

BlockadeNext == AnyMove

SpecBlockade == BlockadeInit /\ [][BlockadeNext]_vars

\* Three players on fully claimed territory, players 0 and 2 with a warrior
\* each and player 1 with its settlers, all free to move; players 1 and 2
\* are at peace or at war, player 0 is at peace with both.
BorderInit ==
  \E war \in BOOLEAN :
    \E g \in {Duel(3, NoTech(3), 0, 0, 1, MaxSettlers, "claimed",
                    FALSE, TRUE)} :
      InitFrom(IF war THEN AtWar(g, 1, 2) ELSE g)

BorderNext == AnyMove

SpecBorder == BorderInit /\ [][BorderNext]_vars

\* Two players at peace, player 1 with a warrior and its settlers; every
\* city is part-way through `kind`, running or paused by a blocked spawn.
OrdersInit ==
  \E cur \in 0 .. 1, kind \in {"WARRIOR", "SCIENCE"}, paused \in BOOLEAN,
     cityDmg \in {0, 1} :
    \E g \in {WithProduction(
                Duel(2, NoTech(2), cur, cityDmg, 1, MaxSettlers, "start",
                     FALSE, FALSE), kind)} :
      InitFrom([g EXCEPT !.pieces = [i \in DOMAIN g.pieces |->
        IF g.pieces[i].type = CITY
          THEN [g.pieces[i] EXCEPT !.productionPaused = paused]
          ELSE g.pieces[i]]])

OrdersNext ==
  \/ InPlay /\ AnySetProduction
  \/ AnyEndTurn

SpecOrders == OrdersInit /\ [][OrdersNext]_vars

\* Three players whose units have all moved, each played by a controller;
\* player 0 level with the others or ahead in technology; players 0 and 1
\* at peace, at war, or at war with player 1 asking for peace; every city
\* idle or one turn short of completing `kind`.
PlanInit ==
  \E tech0 \in {0, MaxTech}, kind \in {NoProduction, "SCIENCE", "WARRIOR"},
     feud \in {"none", "war", "asked"} :
    \E d \in {WithProduction(
                Duel(3, [NoTech(3) EXCEPT ![0] = tech0], 0, 0, 1, 0, "start",
                     FALSE, FALSE), kind)} :
      \E g \in {[d EXCEPT !.pieces = [i \in DOMAIN d.pieces |->
                    [d.pieces[i] EXCEPT !.hasMoved = TRUE]]]} :
        InitFrom(CASE feud = "war" -> AtWar(g, 0, 1)
                   [] feud = "asked" -> proposePeace(AtWar(g, 0, 1), 1, 0).g
                   [] OTHER -> g)

PlanNext ==
  \/ InPlay /\ AnyAIHandleDiplomacy
  \/ InPlay /\ AnyAIHandleCityProductions
  \/ last.cmd = "handleCityProductions" /\ AnyEndTurn

SpecPlan == PlanInit /\ [][PlanNext]_vars

\* ------------------------------------------------------------ AI turns
\* Two players with a warrior each at the front, player 1 also with its
\* settlers; whoever is to move is played by the AI.
AIInit ==
  \E cur \in 0 .. 1, cityDmg \in {0, 3}, terr \in {"start", "claimed"},
     war \in BOOLEAN :
    \E g \in {Duel(2, NoTech(2), cur, cityDmg, 1, MaxSettlers, terr, TRUE, TRUE)} :
      InitFrom(IF war THEN AtWar(g, 0, 1) ELSE g)

AINext ==
  \/ InPlay /\ AnyAIMove
  \/ InPlay /\ AnyAIBuildCity
  \/ InPlay /\ AnyAIStay
  \/ AnyEndTurn

SpecAI == AIInit /\ [][AINext]_vars

\* ------------------------------------------------------------ workshop
\* Two players at peace, player 1 with a warrior and its settlers, on bare
\* or claimed territory, to which (grown) each player has added the first
\* tile a Diplomacy offers; every city is one turn from completing `kind`,
\* with the repeat toggle on or off, player 1's city whole or damaged.
WorkshopInit ==
  \E cur \in 0 .. 1, kind \in PRODUCTION_KEYS, repeat \in BOOLEAN,
     cityDmg \in {0, 1, 3}, terr \in {"start", "claimed"}, grown \in BOOLEAN :
    \E d \in {Duel(2, NoTech(2), cur, cityDmg, 1, MaxSettlers, terr,
                    FALSE, FALSE)} :
      \E g \in {WithProduction(
                  IF grown THEN expandTerritory(expandTerritory(d, 0, 0), 1, 0)
                  ELSE d, kind)} :
        InitFrom([g EXCEPT !.pieces = [i \in DOMAIN g.pieces |->
          IF g.pieces[i].type = CITY
            THEN [g.pieces[i] EXCEPT !.repeatProduction = repeat]
            ELSE g.pieces[i]]])

WorkshopNext ==
  \/ AnyEndTurn
  \/ InPlay /\ AnySetProduction

SpecWorkshop == WorkshopInit /\ [][WorkshopNext]_vars

\* ============================================================== claims
\* The fields the commands are specified over.
Core(g) ==
  <<g.board, g.pieces, g.tileOwnership, g.players, g.currentPlayerIndex,
    g.turnNumber, g.gameOver>>

\* Pairs <<attacker, defender>> of an attack canMoveTo accepts now.
LegalAttacks ==
  {a \in PieceIds \X PieceIds :
     canMoveTo(G, PieceOf(G, a[1]), PieceOf(G, a[2]).row,
               PieceOf(G, a[2]).col).valid}

\* What movePiece makes of the attack a, for a shuffle sh.
Outcome(a, sh) ==
  movePiece(G, a[1], PieceOf(G, a[2]).row, PieceOf(G, a[2]).col, sh)

AttackShuffles(a) ==
  MoveShuffles(a[1], PieceOf(G, a[2]).row, PieceOf(G, a[2]).col)

\* hp the defender of attack a is left with
Left(a) == PieceOf(G, a[2]).hp - PieceOf(G, a[1]).damage

\* C1: a rejected movePiece is a no-op.  For every piece and every target,
\* in range or not: if canMoveTo says valid:false, movePiece returns
\* success:false and leaves board, registry, tileOwnership, relations,
\* currentPlayerIndex, turnNumber and gameOver as they were; and canMoveTo
\* says valid:false for every target outside the board.
C1_RejectedMoveIsNoOp ==
  \A id \in PieceIds, row \in Targets, col \in Targets :
    \A sh \in MoveShuffles(id, row, col) :
      LET r == movePiece(G, id, row, col, sh)
          valid == canMoveTo(G, PieceOf(G, id), row, col).valid
      IN /\ ~valid => ~r.result.success /\ Core(r.g) = Core(G)
         /\ ~(row \in Coords /\ col \in Coords) => ~valid

\* C1 witness: a move has just been refused while a warrior that has not
\* moved is on the board.
C1_Witness ==
  /\ last.cmd = "movePiece"
  /\ ~last.success
  /\ \E id \in PieceIds : ~PieceOf(G, id).hasMoved /\ PieceOf(G, id).type = WARRIOR

AtPeace(a, b) ==
  players[a].relations[b] = "peace" /\ players[b].relations[a] = "peace"

\* Attacks by a warrior of player a on a piece of player b that are in
\* range, unmoved and not blockaded in game g.
OpenAttacks(g, a, b) ==
  {x \in PieceIds \X PieceIds :
     LET w == PieceOf(g, x[1])
         t == PieceOf(g, x[2])
     IN /\ w.type = WARRIOR /\ w.ownerId = a /\ t.ownerId = b
        /\ Cheb(w.row, w.col, t.row, t.col) = 1
        /\ ~w.hasMoved
        /\ ~isBlockedByBlockade(g, w.row, w.col, t.row, t.col, a)}

Accepts(g, x) ==
  canMoveTo(g, PieceOf(g, x[1]), PieceOf(g, x[2]).row, PieceOf(g, x[2]).col).valid

\* No warrior of a may move onto a piece of b, whatever the distance.
NoAttack(g, a, b) ==
  \A x \in PieceIds \X PieceIds :
    (PieceOf(g, x[1]).type = WARRIOR /\ PieceOf(g, x[1]).ownerId = a
       /\ PieceOf(g, x[2]).ownerId = b) => ~Accepts(g, x)

\* The tile of the attacked piece belongs to a third player with whom the
\* attacker's owner is at peace.
ThirdPartyTile(g, x) ==
  LET w == PieceOf(g, x[1])
      t == PieceOf(g, x[2])
      o == g.tileOwnership[t.row][t.col]
  IN o # NULL /\ o # w.ownerId /\ o # t.ownerId
       /\ g.players[w.ownerId].relations[o] = "peace"

\* C2 as stated: players at Peace cannot attack each other in either
\* direction, and right after declareWar(a,b) every in-range, unmoved,
\* non-blockaded attack between them is accepted in both directions.
C2_Original ==
  \A a \in DOMAIN players, b \in DOMAIN players :
    (a # b /\ AtPeace(a, b)) =>
      LET g2 == declareWar(G, a, b).g
      IN /\ NoAttack(G, a, b) /\ NoAttack(G, b, a)
         /\ \A x \in OpenAttacks(g2, a, b) \cup OpenAttacks(g2, b, a) :
              Accepts(g2, x)

\* C2 amended: players at Peace cannot attack each other in either
\* direction, and right after declareWar(a,b) every in-range, unmoved,
\* non-blockaded attack between them is accepted in both directions unless
\* the target stands on a tile of a third player at Peace with the attacker.
C2_WarOpensAttacks ==
  \A a \in DOMAIN players, b \in DOMAIN players :
    (a # b /\ AtPeace(a, b)) =>
      LET g2 == declareWar(G, a, b).g
      IN /\ NoAttack(G, a, b) /\ NoAttack(G, b, a)
         /\ \A x \in OpenAttacks(g2, a, b) \cup OpenAttacks(g2, b, a) :
              ~ThirdPartyTile(g2, x) => Accepts(g2, x)

\* C2 witness: war has just been declared and attacks are open both ways.
C2_Witness ==
  /\ last.cmd = "declareWar" /\ last.success
  /\ \E a \in DOMAIN players, b \in DOMAIN players :
       /\ players[a].relations[b] = "war"
       /\ \E x \in OpenAttacks(G, a, b) : Accepts(G, x)
       /\ \E y \in OpenAttacks(G, b, a) : Accepts(G, y)

\* ceil(m / 3), from its definition
CeilThird(m) == CHOOSE n \in 0 .. m : 3 * n >= m /\ 3 * (n - 1) < m

\* C3: in every legal attack a non-city defender loses exactly the
\* attacker's damage and is removed from board and registry iff its hp is
\* then <= 0; a city brought to <= 0 is left with exactly ceil(maxHp/3).
C3_CombatDamage ==
  \A a \in LegalAttacks : \A sh \in AttackShuffles(a) :
    LET d == PieceOf(G, a[2])
        r == Outcome(a, sh)
    IN IF d.type # CITY
         THEN IF Left(a) > 0
                THEN /\ HasPiece(r.g, d.id)
                     /\ PieceOf(r.g, d.id).hp = Left(a)
                     /\ r.g.board[d.row][d.col] = d.id
                ELSE /\ ~HasPiece(r.g, d.id)
                     /\ r.g.board[d.row][d.col] # d.id
         ELSE /\ HasPiece(r.g, d.id)
              /\ Left(a) <= 0 => PieceOf(r.g, d.id).hp = CeilThird(d.maxHp)
              /\ Left(a) > 0 => PieceOf(r.g, d.id).hp = Left(a)

\* C3 witness: a city has just been captured by a hit of more than its hp.
C3_Witness ==
  /\ last.cmd = "movePiece" /\ last.combat.cityFlipped
  /\ last.combat.damageDealt > 1
  /\ PieceOf(G, last.combat.defender).hp = CeilThird(PieceOf(G, last.combat.defender).maxHp)

\* C4: after a successful attack the attacker stands on the target tile iff
\* the defender was a non-city piece that was destroyed; otherwise it is
\* still on its own tile, has moved, and the result says blocked.  A
\* damage-1 warrior attacking a city with hp 4 of 4 leaves it at hp 3 with
\* its owner.
C4_AttackerAdvance ==
  \A a \in LegalAttacks : \A sh \in AttackShuffles(a) :
    LET w == PieceOf(G, a[1])
        d == PieceOf(G, a[2])
        r == Outcome(a, sh)
        w2 == PieceOf(r.g, w.id)
        kills == d.type # CITY /\ Left(a) <= 0
    IN /\ r.result.success
       /\ (w2.row = d.row /\ w2.col = d.col) <=> kills
       /\ ~kills => /\ w2.row = w.row /\ w2.col = w.col
                    /\ r.g.board[w.row][w.col] = w.id
                    /\ w2.hasMoved
                    /\ r.result.blocked
       /\ (d.type = CITY /\ d.hp = 4 /\ d.maxHp = 4 /\ w.damage = 1) =>
            /\ PieceOf(r.g, d.id).hp = 3
            /\ PieceOf(r.g, d.id).ownerId = d.ownerId

\* C4 witness: an attack has just left the defender standing and the
\* attacker blocked on its own tile.
C4_Witness ==
  /\ last.cmd = "movePiece" /\ last.hasCombat /\ last.blocked
  /\ ~last.combat.cityFlipped
  /\ HasPiece(G, last.combat.defender)
  /\ PieceOf(G, last.combat.attacker).hasMoved

\* C5: when a warrior destroys an enemy warrior while the owners are at
\* War, the defender is gone, the attacker occupies the target tile, and a
\* tile that belonged to the defender's owner now belongs to the attacker's.
C5_KillTakesTile ==
  \A a \in LegalAttacks : \A sh \in AttackShuffles(a) :
    LET w == PieceOf(G, a[1])
        d == PieceOf(G, a[2])
        r == Outcome(a, sh)
    IN (/\ d.type = WARRIOR
        /\ players[w.ownerId].relations[d.ownerId] = "war"
        /\ players[d.ownerId].relations[w.ownerId] = "war"
        /\ Left(a) <= 0) =>
         /\ ~HasPiece(r.g, d.id)
         /\ r.g.board[d.row][d.col] = w.id
         /\ PieceOf(r.g, w.id).row = d.row /\ PieceOf(r.g, w.id).col = d.col
         /\ tileOwnership[d.row][d.col] = d.ownerId =>
              r.g.tileOwnership[d.row][d.col] = w.ownerId

\* C5 witness: player 0's warrior has just destroyed the warrior guarding
\* player 1's city and holds its tile, which was player 1's (only on
\* claimed territory is that tile owned at all).
C5_Witness ==
  /\ last.cmd = "movePiece" /\ last.combat.defenderDestroyed
  /\ \E i \in DOMAIN pieces :
       /\ pieces[i].id = last.combat.attacker
       /\ pieces[i].ownerId = 0
       /\ pieces[i].row = 1 /\ pieces[i].col = BoardSize - 1
       /\ tileOwnership[1][BoardSize - 1] = 0

\* C6: when an attack brings a city to hp <= 0 the city stays on its tile
\* and in the registry, belongs to the attacker's owner, has production
\* None with progress 0, its tile belongs to the attacker's owner, and the
\* previous owner has been checked for elimination: the result reports it
\* eliminated exactly when it holds no city any more.
C6_CityCapture ==
  \A a \in LegalAttacks : \A sh \in AttackShuffles(a) :
    LET w == PieceOf(G, a[1])
        d == PieceOf(G, a[2])
        r == Outcome(a, sh)
        el == r.result.combat.elimination
    IN (d.type = CITY /\ Left(a) <= 0) =>
         /\ HasPiece(r.g, d.id)
         /\ r.g.board[d.row][d.col] = d.id
         /\ PieceOf(r.g, d.id).row = d.row /\ PieceOf(r.g, d.id).col = d.col
         /\ PieceOf(r.g, d.id).ownerId = w.ownerId
         /\ PieceOf(r.g, d.id).production = NoProduction
         /\ PieceOf(r.g, d.id).productionProgress = 0
         /\ r.g.tileOwnership[d.row][d.col] = w.ownerId
         /\ el.eliminated <=> getPlayerCities(r.g, d.ownerId) = {}
         /\ el.eliminated => el.playerId = d.ownerId

\* C6 witness: a producing city has just been captured from a player who
\* still holds another city.
C6_Witness ==
  /\ last.cmd = "movePiece" /\ last.combat.cityFlipped
  /\ ~last.combat.elimination.eliminated
  /\ PieceOf(G, last.combat.defender).production = NoProduction
  /\ \E i \in DOMAIN pieces :
       pieces[i].type = CITY /\ pieces[i].production # NoProduction

CityIds == {pieces[i].id : i \in {j \in DOMAIN pieces : pieces[j].type = CITY}}

\* C7: cities are never destroyed: from one state to the next the set of
\* city pieces never loses a member, and every city has hp >= 1 in every
\* state.
C7_CitiesNeverDestroyed ==
  /\ [](\A i \in DOMAIN pieces : pieces[i].type = CITY => pieces[i].hp >= 1)
  /\ [][CityIds \subseteq CityIds']_vars

\* C7 witness: a city has just been captured; it is still among the
\* cities, with hp >= 1.
C7_Witness ==
  /\ last.cmd = "movePiece" /\ last.combat.cityFlipped
  /\ last.combat.defender \in CityIds
  /\ PieceOf(G, last.combat.defender).hp >= 1

OwnedBy(g, p) == {g.pieces[i].id : i \in {j \in DOMAIN g.pieces : g.pieces[j].ownerId = p}}

\* C8: when a player holding W warriors and S settlers loses the last city,
\* exactly max(1, floor(W/4)) warriors (0 if W = 0) are converted, the
\* other warriors and all S settlers are destroyed, each conversion removes
\* the old piece and creates one new warrior on the same tile, afterwards
\* the eliminated player owns no piece, and the number of pieces has changed
\* by exactly -(destroyed warriors + S).
C8_EliminationSplit ==
  \A a \in LegalAttacks : \A sh \in AttackShuffles(a) :
    LET d == PieceOf(G, a[2])
        p == d.ownerId
        r == Outcome(a, sh)
        el == r.result.combat.elimination
        ws == PlayerUnits(G, p, WARRIOR)
        ss == PlayerUnits(G, p, SETTLER)
        W == Cardinality(ws)
        S == Cardinality(ss)
        k == IF W = 0 THEN 0 ELSE Max(1, W \div 4)
        olds == {el.convertedUnits[i].oldUnit : i \in DOMAIN el.convertedUnits}
    IN (d.type = CITY /\ Left(a) <= 0 /\ getPlayerCities(G, p) = {d.id}) =>
         /\ el.eliminated
         /\ Len(el.convertedUnits) = k /\ Cardinality(olds) = k
         /\ olds \subseteq ws
         /\ el.destroyedUnits = (ws \ olds) \cup ss
         /\ \A id \in ws \cup ss : ~HasPiece(r.g, id)
         /\ \A i \in DOMAIN el.convertedUnits :
              LET c == el.convertedUnits[i]
              IN /\ ~HasPiece(G, c.newWarrior)
                 /\ HasPiece(r.g, c.newWarrior)
                 /\ PieceOf(r.g, c.newWarrior).type = WARRIOR
                 /\ PieceOf(r.g, c.newWarrior).row = PieceOf(G, c.oldUnit).row
                 /\ PieceOf(r.g, c.newWarrior).col = PieceOf(G, c.oldUnit).col
                 /\ r.g.board[PieceOf(G, c.oldUnit).row][PieceOf(G, c.oldUnit).col]
                      = c.newWarrior
         /\ OwnedBy(r.g, p) = {}
         /\ Len(r.g.pieces) = Len(pieces) - ((W - k) + S)

\* C9: between commands, a player who owns no city owns no warrior and no
\* settler.
C9_NoCityNoUnits ==
  \A p \in DOMAIN players :
    getPlayerCities(G, p) = {} => OwnedBy(G, p) = {}

\* C10: after every capture that eliminated a player, the converted
\* warriors are owned by the owner of the piece that captured the last city,
\* whoever's turn it was.
C10_ConvertedToConqueror ==
  (last.cmd = "movePiece" /\ last.combat.elimination.eliminated) =>
    \A i \in DOMAIN last.combat.elimination.convertedUnits :
      PieceOf(G, last.combat.elimination.convertedUnits[i].newWarrior).ownerId
        = PieceOf(G, last.combat.attacker).ownerId

CityOwners == {pieces[i].ownerId : i \in {j \in DOMAIN pieces : pieces[j].type = CITY}}

\* C11: between commands, gameOver is true if and only if all cities belong
\* to exactly one owner, and winner is then that owner.
C11_VictoryDetection ==
  /\ gameOver <=> Cardinality(CityOwners) = 1
  /\ gameOver => CityOwners = {winner}

\* C12: once gameOver is true it stays true with the same winner, and an
\* endTurn taken then runs no production, keeps currentPlayerIndex and does
\* not increment turnNumber.
C12_GameOverTerminal ==
  [][gameOver =>
       /\ gameOver' /\ winner' = winner
       /\ last'.cmd = "endTurn" =>
            /\ currentPlayerIndex' = currentPlayerIndex
            /\ turnNumber' = turnNumber
            /\ pieces' = pieces
            /\ tileOwnership' = tileOwnership
            /\ players' = players]_vars

\* C13: after every endTurn in a game in which some player holds a city,
\* the player whose turn it is owns at least one city.
C13_RotationSkipsCityless ==
  (last.cmd = "endTurn" /\ CityOwners # {}) =>
    getPlayerCities(G, currentPlayerIndex) # {}

\* C14: endTurn always terminates: for every roster size the game can be
\* set up with (2 to 4 players) and every reachable state, the loop that
\* advances to the next player exits after at most players.length steps.
C14_EndTurnTerminates ==
  \A rnds \in [1 .. MaxDraws(G) -> 0 .. MaxDraw] :
    endTurn(G, rnds).currentPlayerIndex \in PlayerIds(G)

\* endTurn has just run in a four-player game that is not over: player 2
\* ended its turn (its guard may move again), player 3 holds no city and
\* was passed over, and the turn went on to player 0.
C14_Witness ==
  /\ last.cmd = "endTurn" /\ ~gameOver
  /\ NumPlayers(G) = MaxPlayers
  /\ currentPlayerIndex = 0
  /\ getPlayerCities(G, 3) = {}
  /\ \E i \in DOMAIN pieces : pieces[i].ownerId = 2 /\ ~pieces[i].hasMoved

\* The relation entry of x towards y.
Rel(g, x, y) == g.players[x].relations[y]

\* C15: declareWar(A,B) with A # B is symmetric and immediate: whatever the
\* prior entries (Peace, War or a pending PeaceProposed in either
\* direction), afterwards both entries are War and no entry involving a
\* third player changes; declareWar(A,A) returns false and changes nothing.
C15_DeclareWar ==
  \A a \in PlayerIds(G), b \in PlayerIds(G) :
    LET r == declareWar(G, a, b)
    IN IF a = b THEN ~r.result /\ r.g = G
       ELSE /\ r.result
            /\ Rel(r.g, a, b) = "war" /\ Rel(r.g, b, a) = "war"
            /\ \A x \in PlayerIds(G), y \in PlayerIds(G) :
                 {x, y} # {a, b} => Rel(r.g, x, y) = Rel(G, x, y)

\* War has just been declared between players 0 and 1; player 2's proposal
\* to player 0 is still pending and players 1 and 2 are still at peace.
C15_Witness ==
  /\ last.cmd = "declareWar" /\ last.success
  /\ Rel(G, 0, 1) = "war" /\ Rel(G, 1, 0) = "war"
  /\ Rel(G, 2, 0) = "peace_proposed" /\ Rel(G, 1, 2) = "peace"

\* C16: proposePeace(A,B) is one-directional: afterwards A's entry for B is
\* PeaceProposed, while B's entry for A, every other relation entry, every
\* piece, the board and tileOwnership are unchanged; proposing never itself
\* sets any entry to Peace.
C16_ProposePeace ==
  \A a \in PlayerIds(G) : \A b \in PlayerIds(G) \ {a} :
    LET r == proposePeace(G, a, b)
    IN /\ r.result
       /\ Rel(r.g, a, b) = "peace_proposed"
       /\ \A x \in PlayerIds(G), y \in PlayerIds(G) :
            /\ <<x, y>> # <<a, b>> => Rel(r.g, x, y) = Rel(G, x, y)
            /\ Rel(r.g, x, y) = "peace" => Rel(G, x, y) = "peace"
       /\ r.g.pieces = pieces /\ r.g.board = board
       /\ r.g.tileOwnership = tileOwnership

\* Player 0 has just proposed peace to player 1, who is still at war with it.
C16_Witness ==
  /\ last.cmd = "proposePeace" /\ last.success
  /\ Rel(G, 0, 1) = "peace_proposed" /\ Rel(G, 1, 0) = "war"

\* C17: acceptPeace(A,B) succeeds exactly when B's entry for A is
\* PeaceProposed; then both entries become Peace; otherwise it returns false
\* and no relation entry changes. Consequently a pair of players at war
\* reaches mutual Peace only through an acceptPeace step taken for a player
\* to whom the other's proposal is pending.
C17_AcceptPeace ==
  /\ [](\A a \in PlayerIds(G), b \in PlayerIds(G) :
          LET r == acceptPeace(G, a, b)
          IN /\ r.result <=> Rel(G, b, a) = "peace_proposed"
             /\ r.result => Rel(r.g, a, b) = "peace" /\ Rel(r.g, b, a) = "peace"
             /\ ~r.result => r.g.players = players)
  /\ [][\A a \in PlayerIds(G) : \A b \in PlayerIds(G) \ {a} :
          (/\ ~(Rel(G, a, b) = "peace" /\ Rel(G, b, a) = "peace")
           /\ players'[a].relations[b] = "peace"
           /\ players'[b].relations[a] = "peace")
          => /\ last'.cmd = "acceptPeace" /\ last'.success
             /\ \E x \in {a, b} : \E y \in {a, b} \ {x} :
                  /\ Rel(G, y, x) = "peace_proposed"
                  /\ players' = acceptPeace(G, x, y).g.players]_vars

\* Players 0 and 1, at war from the start, are at peace with each other
\* after an accepted proposal; both are still at war with player 2.
C17_Witness ==
  /\ last.cmd = "acceptPeace" /\ last.success
  /\ Rel(G, 0, 1) = "peace" /\ Rel(G, 1, 0) = "peace"
  /\ Rel(G, 0, 2) = "war" /\ Rel(G, 2, 0) = "war"
  /\ Rel(G, 1, 2) = "war" /\ Rel(G, 2, 1) = "war"

\* C18: a pending, unaccepted peace proposal does not grant peace: after
\* proposePeace(A,B) issued at war and before the matching acceptPeace, every
\* move of a Warrior of A or of B is accepted or rejected, fights and takes
\* tiles exactly as it would have before the proposal.
C18_ProposalKeepsWarRules ==
  \A a \in PlayerIds(G) : \A b \in PlayerIds(G) \ {a} :
    (Rel(G, a, b) = "peace_proposed" /\ Rel(G, b, a) = "war") =>
      \A id \in PieceIds, row \in Coords, col \in Coords :
        (PieceOf(G, id).type = WARRIOR /\ PieceOf(G, id).ownerId \in {a, b}) =>
          \A shuffle \in MoveShuffles(id, row, col) :
            LET now == movePiece(G, id, row, col, shuffle)
                before == movePiece(SetRelation(G, a, b, "war"),
                                    id, row, col, shuffle)
            IN /\ now.result.success = before.result.success
               /\ now.g.pieces = before.g.pieces
               /\ now.g.board = before.g.board
               /\ now.g.tileOwnership = before.g.tileOwnership

\* A city of the player to move whose Warrior or Settler completes at this
\* endTurn and which has no empty tile next to it.
SpawnBlocked(i) ==
  /\ pieces[i].type = CITY /\ pieces[i].ownerId = currentPlayerIndex
  /\ pieces[i].production \in {"WARRIOR", "SETTLER"}
  /\ ~pieces[i].productionPaused
  /\ pieces[i].productionProgress + 1 >= PRODUCTION_TYPES[pieces[i].production].turns
  /\ findAdjacentEmptyTile(G, pieces[i].row, pieces[i].col) = NoTile

\* C19: spawn-blocked production is recoverable: when a city's Warrior or
\* Settler production reaches its turn count at endTurn and no adjacent tile
\* is empty, then after endTurn no unit has appeared next to the city, its
\* production kind is unchanged, productionPaused is true and
\* productionProgress is the turn count minus 1, whatever the repeat flag.
C19_SpawnBlockedRefund ==
  [][\A i \in DOMAIN pieces :
       (SpawnBlocked(i) /\ last'.cmd = "endTurn") =>
         /\ \A j \in DOMAIN pieces' :
              Cheb(pieces'[j].row, pieces'[j].col, pieces[i].row, pieces[i].col) = 1
                => j \in DOMAIN pieces /\ pieces'[j].id = pieces[j].id
         /\ pieces'[i].production = pieces[i].production
         /\ pieces'[i].productionPaused
         /\ pieces'[i].productionProgress =
              PRODUCTION_TYPES[pieces[i].production].turns - 1]_vars

\* C20: canSettlerBuildCity returns valid exactly when the piece is a
\* Settler, the tile it stands on is owned by its owner and every City is at
\* Chebyshev distance >= 2; then settlerBuildCity removes the settler and
\* creates a City of the same owner at the same position with that tile
\* owned by the owner; otherwise settlerBuildCity fails and changes neither
\* pieces, board nor tileOwnership.
C20_SettlerBuildsCity ==
  \A id \in PieceIds :
    LET p == PieceOf(G, id)
        r == settlerBuildCity(G, id)
        built == r.g.board[p.row][p.col]
    IN /\ canSettlerBuildCity(G, p).valid <=>
            /\ p.type = SETTLER
            /\ tileOwnership[p.row][p.col] = p.ownerId
            /\ \A i \in DOMAIN pieces :
                 pieces[i].type = CITY =>
                   Cheb(pieces[i].row, pieces[i].col, p.row, p.col) >= 2
       /\ IF canSettlerBuildCity(G, p).valid
            THEN /\ r.result
                 /\ ~HasPiece(r.g, id)
                 /\ built # NULL /\ HasPiece(r.g, built) /\ ~HasPiece(G, built)
                 /\ PieceOf(r.g, built).type = CITY
                 /\ PieceOf(r.g, built).ownerId = p.ownerId
                 /\ PieceOf(r.g, built).row = p.row
                 /\ PieceOf(r.g, built).col = p.col
                 /\ r.g.tileOwnership[p.row][p.col] = p.ownerId
            ELSE /\ ~r.result
                 /\ r.g.pieces = pieces /\ r.g.board = board
                 /\ r.g.tileOwnership = tileOwnership

\* A settler has just founded a city away from the corners, and the tile
\* under it belongs to the founder.
C20_Witness ==
  /\ last.cmd = "settlerBuildCity" /\ last.success
  /\ \E i \in DOMAIN pieces :
       /\ pieces[i].type = CITY
       /\ <<pieces[i].row, pieces[i].col>> \notin Range(Corners)
       /\ tileOwnership[pieces[i].row][pieces[i].col] = pieces[i].ownerId

\* The tiles strictly between two tiles of one row or one column.
Between(r1, c1, r2, c2) ==
  {<<r1 + k * Sign(r2 - r1), c1 + k * Sign(c2 - c1)>> :
     k \in 1 .. (Cheb(r1, c1, r2, c2) - 1)}

WarriorOwner(row, col) ==
  IF board[row][col] # NULL /\ PieceOf(G, board[row][col]).type = WARRIOR
    THEN PieceOf(G, board[row][col]).ownerId
    ELSE NULL

\* C22: blockade rule: a one-step diagonal move from (r,c) to (r+dr,c+dc) is
\* rejected whenever the two other corners of the crossed square, (r,c+dc)
\* and (r+dr,c), both hold Warriors of one same owner who is not the mover's
\* owner; a blockade is never the reason for rejection when those Warriors
\* are the mover's own, belong to two owners, or a corner is empty or holds
\* a non-Warrior (nor for any move that is not a one-step diagonal).
C22_Blockade ==
  \A id \in PieceIds, row \in Coords, col \in Coords :
    LET p == PieceOf(G, id)
        diagonal == Abs(row - p.row) = 1 /\ Abs(col - p.col) = 1
        blockade == /\ diagonal
                    /\ WarriorOwner(p.row, col) # NULL
                    /\ WarriorOwner(p.row, col) = WarriorOwner(row, p.col)
                    /\ WarriorOwner(p.row, col) # p.ownerId
        can == canMoveTo(G, p, row, col)
    IN /\ blockade => ~can.valid
       /\ ~blockade => can.reason # "Blocked by enemy blockade"

\* Player 0's warrior has just been refused the diagonal step between two
\* warriors of one other player, the blockade being the reason.
C22_Witness ==
  /\ last.cmd = "movePiece" /\ ~last.success
  /\ \E id \in PieceIds, row \in Coords, col \in Coords :
       /\ PieceOf(G, id).ownerId = 0
       /\ canMoveTo(G, PieceOf(G, id), row, col).reason = "Blocked by enemy blockade"

\* C23: board/registry consistency: in every reachable state every piece of
\* the registry occupies exactly one grid cell, the cell at its own
\* (row, col); every non-empty grid cell refers to a piece of the registry;
\* and no two pieces share a tile.
C23_BoardRegistryConsistent ==
  /\ \A i \in DOMAIN pieces :
       {t \in Coords \X Coords : board[t[1]][t[2]] = pieces[i].id}
         = {<<pieces[i].row, pieces[i].col>>}
  /\ \A r \in Coords, c \in Coords :
       board[r][c] # NULL => board[r][c] \in PieceIds
  /\ \A i \in DOMAIN pieces, j \in DOMAIN pieces :
       (pieces[i].row = pieces[j].row /\ pieces[i].col = pieces[j].col) => i = j

\* A capture has just eliminated a player: one of its units was destroyed
\* and another converted on the tile where it stood.
C23_Witness ==
  /\ last.cmd = "movePiece" /\ last.hasCombat
  /\ last.combat.elimination.eliminated
  /\ last.combat.elimination.destroyedUnits # {}
  /\ last.combat.elimination.convertedUnits # <<>>

\* The engine object after the step.
GNext ==
  [players |-> players', currentPlayerIndex |-> currentPlayerIndex',
   board |-> board', pieces |-> pieces', tileOwnership |-> tileOwnership',
   gameOver |-> gameOver', winner |-> winner', turnNumber |-> turnNumber',
   nextId |-> nextId']

\* C24: the AI never bypasses rule legality: every change an AI action
\* makes is the effect of one engine movePiece call whose canMoveTo check is
\* valid in the state of the call, or of one settlerBuildCity call whose
\* canSettlerBuildCity check is valid; the AI changes no piece field by any
\* other path.
C24_AIOnlyEngineCalls ==
  [][last'.cmd = "executeAction" =>
       \E id \in PieceIds :
         \/ \E row \in Coords, col \in Coords :
              /\ canMoveTo(G, PieceOf(G, id), row, col).valid
              /\ \E shuffle \in MoveShuffles(id, row, col) :
                   GNext = movePiece(G, id, row, col, shuffle).g
         \/ /\ canSettlerBuildCity(G, PieceOf(G, id)).valid
            /\ GNext = settlerBuildCity(G, id).g]_vars

\* The production state of a city.
ProductionState(c) ==
  <<c.production, c.productionProgress, c.productionPaused>>

\* C25: production advancement: one endTurn advances productionProgress by
\* exactly 1, once, for each City of the ending player that has a
\* production kind and is not paused (a production that thereby reaches its
\* turn count completes); a paused city is not advanced, its paused flag is
\* cleared instead; the production state of every other player's cities is
\* unchanged.
C25_ProductionAdvance ==
  [][last'.cmd = "endTurn" =>
       \A i \in DOMAIN pieces :
         pieces[i].type = CITY =>
           IF pieces[i].ownerId # currentPlayerIndex
             THEN ProductionState(pieces'[i]) = ProductionState(pieces[i])
           ELSE IF pieces[i].production = NoProduction \/ pieces[i].productionPaused
             THEN ProductionState(pieces'[i]) =
                    <<pieces[i].production, pieces[i].productionProgress, FALSE>>
           ELSE \/ ProductionState(pieces'[i]) =
                     <<pieces[i].production, pieces[i].productionProgress + 1, FALSE>>
                \/ pieces[i].productionProgress + 1
                     >= PRODUCTION_TYPES[pieces[i].production].turns]_vars

\* C26: production completion: a production completes exactly when its
\* progress reaches the kind's turn count (Diplomacy 4, Science 10, Warrior
\* 4, Settler 6, Repair 1); after a completion, with repeat set the same kind
\* continues at progress 0, except Repair, which becomes None once the
\* city's hp equals maxHp; with repeat not set the production becomes None
\* at progress 0.  Repair adds exactly 1 hp and never raises hp above maxHp.
C26_CompletionStateMachine ==
  /\ [k \in PRODUCTION_KEYS |-> PRODUCTION_TYPES[k].turns] =
       [k \in PRODUCTION_KEYS |->
          CASE k = "SCIENCE" -> 10 [] k = "SETTLER" -> 6
            [] k = "REPAIR" -> 1 [] OTHER -> 4]
  /\ \A i \in DOMAIN pieces, rnd \in 0 .. MaxDraw :
       LET c == pieces[i]
           g1 == processProduction(G, c.id, rnd)
           c1 == PieceOf(g1, c.id)
       IN (c.type = CITY /\ c.production # NoProduction /\ ~c.productionPaused) =>
            /\ c.productionProgress < PRODUCTION_TYPES[c.production].turns
            /\ IF c.productionProgress + 1 < PRODUCTION_TYPES[c.production].turns
                 THEN g1 = SetPiece(G, c.id,
                             [c EXCEPT !.productionProgress = c.productionProgress + 1])
                 ELSE /\ c1.productionProgress = 0
                      /\ c1.production =
                           IF ~c.repeatProduction THEN NoProduction
                           ELSE IF c.production = "REPAIR" /\ c1.hp = c1.maxHp
                             THEN NoProduction
                           ELSE c.production
                      /\ c.production = "REPAIR" =>
                           /\ c1.hp = (IF c.hp < c.maxHp THEN c.hp + 1 ELSE c.hp)
                           /\ c1.hp <= c1.maxHp /\ c1.maxHp = c.maxHp

\* A turn has just ended in which a repeating Repair brought a damaged city
\* to full health and stopped.
C26_Witness ==
  /\ last.cmd = "endTurn"
  /\ \E i \in DOMAIN pieces :
       /\ pieces[i].type = CITY /\ pieces[i].ownerId = 1
       /\ pieces[i].repeatProduction /\ pieces[i].production = NoProduction
       /\ pieces[i].productionProgress = 0
       /\ pieces[i].hp = pieces[i].maxHp
  /\ \E i \in DOMAIN pieces :
       /\ pieces[i].type = CITY /\ pieces[i].ownerId = 0
       /\ pieces[i].production = "REPAIR"

\* C27: a Science completion for player P increments P's techScore by
\* exactly 1, adds +1 hp and +1 maxHp to every City and Warrior of P, +1
\* damage to every Warrior of P only, and leaves P's Settlers and every
\* other player's pieces and techScore unchanged; techScore never decreases.
C27_ScienceCompletion ==
  /\ [](\A i \in DOMAIN pieces :
          LET c == pieces[i]
              g1 == processProduction(G, c.id, 0)
          IN (/\ c.type = CITY /\ c.ownerId = currentPlayerIndex
              /\ c.production = "SCIENCE" /\ ~c.productionPaused
              /\ c.productionProgress + 1 >= PRODUCTION_TYPES["SCIENCE"].turns) =>
               /\ g1.players[c.ownerId].techScore =
                    players[c.ownerId].techScore + 1
               /\ \A q \in PlayerIds(G) \ {c.ownerId} : g1.players[q] = players[q]
               /\ DOMAIN g1.pieces = DOMAIN pieces
               /\ \A j \in DOMAIN pieces :
                    LET p == pieces[j]
                        p1 == g1.pieces[j]
                        grown == [p EXCEPT
                                    !.hp = p.hp + 1, !.maxHp = p.maxHp + 1,
                                    !.damage = IF p.type = WARRIOR
                                                 THEN p.damage + 1 ELSE p.damage]
                    IN IF p.ownerId # c.ownerId \/ p.type = SETTLER THEN p1 = p
                       ELSE IF j # i THEN p1 = grown
                       ELSE /\ p1.hp = grown.hp /\ p1.maxHp = grown.maxHp
                            /\ p1.damage = grown.damage)
  /\ [][\A q \in PlayerIds(G) :
          players'[q].techScore >= players[q].techScore]_vars

\* Player 1 has just completed Science: its techScore is 1, its warrior
\* deals 2 damage, its settler still has 1 hp.
C27_Witness ==
  /\ last.cmd = "endTurn"
  /\ players[1].techScore = 1 /\ players[0].techScore = 0
  /\ \E i \in DOMAIN pieces :
       pieces[i].ownerId = 1 /\ pieces[i].type = WARRIOR /\ pieces[i].damage = 2
  /\ \E i \in DOMAIN pieces :
       pieces[i].ownerId = 1 /\ pieces[i].type = SETTLER /\ pieces[i].maxHp = 1

\* Is the tile next to a tile that p owns?
Borders(p, t) ==
  \E u \in Coords \X Coords :
    Cheb(t[1], t[2], u[1], u[2]) = 1 /\ tileOwnership[u[1]][u[2]] = p

\* C28: a Diplomacy completion for player P changes the owner of at most
\* one tile; the claimed tile is not owned by P beforehand and is 8-adjacent
\* to a tile P owns; whenever at least one such adjacent tile is unowned the
\* claimed tile is an unowned one; and if a City stands on the claimed tile
\* that city's owner becomes P.
C28_DiplomacyExpansion ==
  \A i \in DOMAIN pieces, rnd \in 0 .. (BoardSize * BoardSize - 1) :
    LET c == pieces[i]
        g1 == processProduction(G, c.id, rnd)
        claimed == {t \in Coords \X Coords :
                      g1.tileOwnership[t[1]][t[2]] # tileOwnership[t[1]][t[2]]}
    IN (/\ c.type = CITY /\ c.ownerId = currentPlayerIndex
        /\ c.production = "DIPLOMACY" /\ ~c.productionPaused
        /\ c.productionProgress + 1 >= PRODUCTION_TYPES["DIPLOMACY"].turns) =>
         /\ Cardinality(claimed) <= 1
         /\ \A t \in claimed :
              /\ g1.tileOwnership[t[1]][t[2]] = c.ownerId
              /\ Borders(c.ownerId, t)
              /\ (\E u \in Coords \X Coords :
                    tileOwnership[u[1]][u[2]] = NULL /\ Borders(c.ownerId, u))
                  => tileOwnership[t[1]][t[2]] = NULL
              /\ (board[t[1]][t[2]] # NULL
                    /\ PieceOf(G, board[t[1]][t[2]]).type = CITY)
                  => PieceOf(g1, board[t[1]][t[2]]).ownerId = c.ownerId

\* A turn has just ended in which player 0's Diplomacy took the tile beside
\* player 1's city from player 1, no unowned tile being left on the board.
C28_Witness ==
  /\ last.cmd = "endTurn"
  /\ tileOwnership[0][BoardSize - 2] = 0
  /\ \A r \in Coords, c \in Coords : tileOwnership[r][c] # NULL
  /\ \E i \in DOMAIN pieces :
       /\ pieces[i].type = CITY /\ pieces[i].ownerId = 0
       /\ pieces[i].production = "DIPLOMACY"

\* A successful movePiece is made by a piece that had not moved and leaves
\* it marked as moved.
MoveSpendsTheMove ==
  \A id \in PieceIds, row \in Targets, col \in Targets :
    \A shuffle \in MoveShuffles(id, row, col) :
      \A r \in {movePiece(G, id, row, col, shuffle)} :
        r.result.success =>
          /\ ~PieceOf(G, id).hasMoved
          /\ HasPiece(r.g, id) /\ PieceOf(r.g, id).hasMoved

\* A step other than endTurn clears no piece's mark; endTurn leaves the
\* ending player's pieces unmarked and every other piece's mark as it was.
MarksKeptUntilEndTurn ==
  LET ending == currentPlayerIndex
      G1 == [pieces |-> pieces']
  IN IF last'.cmd = "endTurn"
       THEN \A id \in PieceIds :
              HasPiece(G1, id) =>
                IF PieceOf(G1, id).ownerId = ending
                  THEN ~PieceOf(G1, id).hasMoved
                  ELSE PieceOf(G1, id).hasMoved = PieceOf(G, id).hasMoved
       ELSE \/ pieces' = pieces
            \/ \A id \in PieceIds :
                 HasPiece(G1, id) /\ PieceOf(G, id).hasMoved
                   => PieceOf(G1, id).hasMoved

\* C29: between two consecutive endTurn calls each piece completes at most
\* one successful movePiece: a successful movePiece (plain move, destroying
\* attack or blocked attack) needs an unmarked piece and marks it, and no
\* step but endTurn clears a mark; endTurn clears hasMoved for exactly the
\* pieces owned by the player whose turn is ending and for no other piece.
C29_OneMovePerTurn == []MoveSpendsTheMove /\ [][MarksKeptUntilEndTurn]_vars

\* A turn has just ended: a piece of the player now to move, moved during
\* the turn that ended, is still marked, next to unmarked pieces of the
\* player whose turn ended.
C29_Witness ==
  /\ last.cmd = "endTurn"
  /\ \E i \in DOMAIN pieces, j \in DOMAIN pieces :
       /\ pieces[i].ownerId = currentPlayerIndex /\ pieces[i].hasMoved
       /\ pieces[j].ownerId # currentPlayerIndex /\ ~pieces[j].hasMoved
       /\ pieces[j].type = WARRIOR

\* Is the tile owned by a player other than p with whom p is at peace?
PeaceOwned(p, row, col) ==
  /\ tileOwnership[row][col] # NULL
  /\ tileOwnership[row][col] # p
  /\ players[p].relations[tileOwnership[row][col]] = "peace"

C31_SetProductionValidates ==
  \A id \in PieceIds, k \in PRODUCTION_KEYS :
    \A r \in {setProduction(G, id, k)} :
      LET p == PieceOf(G, id)
      IN /\ r.result = (p.type = CITY /\ p.ownerId = currentPlayerIndex)
         /\ ~r.result => r.g = G
         /\ r.result =>
              r.g = SetPiece(G, id, [p EXCEPT !.production = k,
                                              !.productionProgress = 0,
                                              !.productionPaused = FALSE])

\* setProduction has just succeeded and has just been refused in turn: a
\* city of the player to move runs a new production from progress 0,
\* unpaused, while the other player's city is still paused part-way.
C31_Witness ==
  /\ last.cmd = "setProduction"
  /\ \E i \in DOMAIN pieces, j \in DOMAIN pieces :
       /\ pieces[i].type = CITY /\ pieces[i].ownerId = currentPlayerIndex
       /\ pieces[i].production = "REPAIR"
       /\ pieces[i].productionProgress = 0 /\ ~pieces[i].productionPaused
       /\ pieces[j].type = CITY /\ pieces[j].ownerId # currentPlayerIndex
       /\ pieces[j].productionPaused /\ pieces[j].productionProgress > 0

\* C32: the AI reconsiders a city's production only when that city has no
\* active production: in its production pass it never calls setProduction
\* on a city whose production kind is not None at that moment.
C32_AIKeepsRunningProduction ==
  [][last'.cmd = "handleCityProductions" =>
       \A i \in DOMAIN pieces :
         pieces'[i] # pieces[i] => pieces[i].production = NoProduction]_vars

\* The players on whom the player to move declares war in the step.
WarsDeclared ==
  {o \in DOMAIN players :
     /\ players[currentPlayerIndex].relations[o] = "peace"
     /\ players'[currentPlayerIndex].relations[o] # "peace"}

\* C34: AI war declarations are gated by a cooldown since the controller's
\* last declaration; in particular a controller never issues two declareWar
\* commands within one executeTurn.
C34_WarCooldown ==
  [][last'.cmd = "handleDiplomacy" => Cardinality(WarsDeclared) <= 1]_vars

\* ------------------------------------------------ objective tracking
\* Three players late in a window: player 0 is run by the goal-driven
\* controller and is at war with player 1 or at peace with everyone; its
\* warrior stands next to player 1's city.  held: the warrior already has
\* the objective the controller assigns in this position, tracked for
\* `tracking` turns.
ObjectivesInit ==
  \E personality \in AI_PERSONALITY, war \in BOOLEAN, cityDmg \in {0, 3},
     w \in 0 .. 1, held \in BOOLEAN, tracking \in {0, TrackingWindow - 2} :
    \E d \in {Duel(3, NoTech(3), AIPlayer, cityDmg, w, 0, "start", TRUE, FALSE)} :
      \E g \in {[(IF war THEN AtWar(d, AIPlayer, 1) ELSE d)
                   EXCEPT !.turnNumber = StartTurn - 1]} :
        \E c \in {updateWarriorObjectives(g, AIPlayer,
                     NewController(personality), <<"border", 2, 2>>)} :
          InitWith(g, IF held
                        THEN [c EXCEPT !.warriorObjectives =
                                [id \in DOMAIN @ |->
                                   [@[id] EXCEPT !.turnsTracking = tracking]]]
                        ELSE NewController(personality))

ObjectivesNext ==
  \/ AnyUpdateWarriorObjectives
  \/ /\ InPlay /\ currentPlayerIndex = AIPlayer
     /\ last.cmd \in {"updateWarriorObjectives", "executeAction"}
     /\ AnyAIMove
  \/ InPlay /\ currentPlayerIndex # AIPlayer /\ AnyAIMove
  \/ /\ currentPlayerIndex = AIPlayer
          => last.cmd \in {"updateWarriorObjectives", "executeAction"}
     /\ AnyEndTurn

SpecObjectives == ObjectivesInit /\ [][ObjectivesNext]_vars

\* The controller's warriors, by id.
OwnWarriorIds ==
  {pieces[i].id : i \in {j \in DOMAIN pieces :
     pieces[j].ownerId = AIPlayer /\ pieces[j].type = WARRIOR}}

\* The objective of warrior id reaches the end of its window at the next
\* update with the warrior no closer to the target and the target piece
\* with no less hp than when the window began.
Stagnant(id) ==
  /\ id \in DOMAIN controller.warriorObjectives /\ id \in OwnWarriorIds
  /\ LET o == controller.warriorObjectives[id]
         w == PieceOf(G, id)
     IN /\ o.turnsTracking + 1 >= TrackingWindow
        /\ getDistance(w, o.target) >= o.initialDistance
        /\ ~(/\ o.target.hp # NULL /\ HasPiece(G, o.target.id)
             /\ PieceOf(G, o.target.id).hp < o.initialTargetHp)

\* C33: when a warrior's objective reaches the end of its five-turn window
\* with no progress (the warrior is no closer and the target has lost no
\* hp), the warrior no longer holds that objective after the update; and
\* after every update only living warriors of the controller have an entry
\* in the tracking map.
C33_StagnantDropped ==
  [][last'.cmd = "updateWarriorObjectives" =>
       /\ \A id \in DOMAIN controller.warriorObjectives :
            Stagnant(id) =>
              \/ id \notin DOMAIN controller'.warriorObjectives
              \/ controller'.warriorObjectives[id]
                   # [controller.warriorObjectives[id]
                        EXCEPT !.turnsTracking = @ + 1]
       /\ DOMAIN controller'.warriorObjectives \subseteq OwnWarriorIds]_vars

\* ------------------------------------------------------- lookahead
\* Two players with their units ready, on bare or fully claimed land,
\* at war or at peace, player 1's city whole or nearly
\* fallen; every piece may be moved and every move may be simulated.
LookaheadInit ==
  \E war \in BOOLEAN, cityDmg \in {0, 3}, terr \in {"start", "claimed"} :
    \E g \in {Duel(2, NoTech(2), 0, cityDmg, 1, MaxSettlers, terr,
                    TRUE, TRUE)} :
      InitFrom(IF war THEN AtWar(g, 0, 1) ELSE g)

LookaheadNext == AnyMove \/ AnySimulateMove

SpecLookahead == LookaheadInit /\ [][LookaheadNext]_vars

\* C35: for every piece and target, simulateMove reports valid exactly
\* when movePiece would succeed, defenderDestroyed exactly when movePiece
\* would remove the defender, cityCapture exactly when movePiece would
\* flip a city, and territoryGained exactly when movePiece would change
\* the target tile's owner to the mover's owner.
C35_SimulatePredictsMove ==
  \A id \in PieceIds, row \in Targets, col \in Targets :
    \A shuffle \in MoveShuffles(id, row, col) :
      \A s \in {simulateMove(G, PieceOf(G, id), row, col)},
         r \in {movePiece(G, id, row, col, shuffle)} :
        /\ s.valid = r.result.success
        /\ s.defenderDestroyed
             = (s.defender # NULL /\ ~HasPiece(r.g, s.defender))
        /\ s.cityCapture = r.result.combat.cityFlipped
        /\ s.territoryGained
             = (/\ r.result.success
                /\ tileOwnership[row][col] # PieceOf(G, id).ownerId
                /\ r.g.tileOwnership[row][col] = PieceOf(G, id).ownerId)

\* C36: in every state reached by declareWar, proposePeace and acceptPeace
\* calls the relation entries of two players agree on peace: A's entry for
\* B is "peace" exactly when B's entry for A is "peace" (canMoveTo forbids
\* an attack exactly when the attacker's entry is "peace", so otherwise one
\* side's warriors may attack while the other side's may not).
C36_PeaceIsMutual ==
  \A a \in DOMAIN players, b \in DOMAIN players :
    a # b => ((players[a].relations[b] = "peace")
                = (players[b].relations[a] = "peace"))

\* --------------------------------------------------------- scouting
\* Two players, at peace or at war.  Player 0's territory has grown from
\* its city tile by two Diplomacy expansions (draws r1, r2); player 1 has
\* a settler two tiles east of player 0's city or in the far corner, and
\* a warrior beside its own city; player 0 has a warrior south of its city.
ScoutInit ==
  \E war \in BOOLEAN, r1 \in 0 .. 1, r2 \in 0 .. 3, near \in BOOLEAN,
     cur \in 0 .. 1 :
    \E d \in {Territory(PutAll(MidGame(2, NoTech(2), cur),
                << <<CITY, 0, 0, 0, 0, FALSE>>,
                   <<CITY, 1, 0, BoardSize - 1, 0, FALSE>>,
                   <<WARRIOR, 0, 2, 0, 0, FALSE>>,
                   <<WARRIOR, 1, 1, BoardSize - 1, 0, FALSE>>,
                   IF near THEN <<SETTLER, 1, 1, 2, 0, FALSE>>
                   ELSE <<SETTLER, 1, BoardSize - 1, BoardSize - 1, 0, FALSE>> >>),
              "start")} :
      \E g \in {expandTerritory(expandTerritory(d, 0, r1), 0, r2)} :
        InitFrom(IF war THEN AtWar(g, 0, 1) ELSE g)

ScoutNext ==
  \/ InPlay /\ AnyAIMove
  \/ AnyEndTurn

SpecScout == ScoutInit /\ [][ScoutNext]_vars

\* C37: for every Warrior and Settler getValidMoves returns exactly the
\* tiles canMoveTo accepts (none omitted, none added), and for a City or a
\* piece that has already moved it returns the empty set.
C37_ValidMovesExact ==
  \A id \in PieceIds :
    \A piece \in {PieceOf(G, id)} :
      getValidMoves(G, piece)
        = IF piece.type = CITY \/ piece.hasMoved THEN {}
          ELSE {t \in Coords \X Coords :
                  canMoveTo(G, piece, t[1], t[2]).valid}

\* C38: in every reachable state any two distinct Cities are at Chebyshev
\* distance >= 2 from each other: the starting cities stand in different
\* corners and a settler founds a city only where no city is adjacent.
C38_CitySpacing ==
  \A i \in DOMAIN pieces, j \in DOMAIN pieces :
    (i # j /\ pieces[i].type = CITY /\ pieces[j].type = CITY)
      => Cheb(pieces[i].row, pieces[i].col, pieces[j].row, pieces[j].col) >= 2

\* A settler has just founded a city exactly two tiles from an older one.
C38_Witness ==
  /\ last.cmd = "settlerBuildCity" /\ last.success
  /\ \E i \in DOMAIN pieces, j \in DOMAIN pieces :
       /\ pieces[i].type = CITY /\ pieces[j].type = CITY
       /\ pieces[i].id > pieces[j].id
       /\ \A k \in DOMAIN pieces : pieces[k].id <= pieces[i].id
       /\ Cheb(pieces[i].row, pieces[i].col, pieces[j].row, pieces[j].col) = 2

\* C39: in every reachable state the tile under each City belongs to the
\* City's owner, through setup, city founding, capture in combat, Diplomacy
\* expansion and the moves of Warriors.
C39_CityTileOwned ==
  \A i \in DOMAIN pieces :
    pieces[i].type = CITY
      => tileOwnership[pieces[i].row][pieces[i].col] = pieces[i].ownerId

\* A turn has just ended in which Diplomacy claimed the tile under the last
\* foreign city: every city has one owner and no victory was declared.
C39_Witness ==
  /\ last.cmd = "endTurn" /\ ~gameOver
  /\ Cardinality({pieces[i].ownerId : i \in {j \in DOMAIN pieces :
                    pieces[j].type = CITY}}) = 1
  /\ Cardinality({i \in DOMAIN pieces : pieces[i].type = CITY}) > 1
  /\ C39_CityTileOwned

\* ------------------------------------------------------------- armies
\* Two players at war, one of them possibly a technology ahead, each with
\* a warrior at the front; player 1's city is one hit from falling and both
\* cities are one turn from completing Science or a Warrior.
ArmyInit ==
  \E techs \in {NoTech(2), [NoTech(2) EXCEPT ![0] = MaxTech],
                 [NoTech(2) EXCEPT ![1] = MaxTech]},
     kind \in {"SCIENCE", "WARRIOR"}, cur \in 0 .. 1 :
    InitFrom(WithProduction(
      AtWar(Duel(2, techs, cur, 3 + techs[1], 1, 0, "start", TRUE, TRUE), 0, 1),
      kind))

ArmyNext ==
  \/ InPlay /\ AnyAIMove
  \/ AnyEndTurn

SpecArmy == ArmyInit /\ [][ArmyNext]_vars

\* C40: in every reachable state every Warrior has damage = 1 + techScore
\* and maxHp = 1 + techScore of its owner and 1 <= hp <= maxHp, whether it
\* was there from the start, spawned by production or created by the
\* conversion that follows an elimination.
C40_WarriorStats ==
  \A i \in DOMAIN pieces :
    pieces[i].type = WARRIOR =>
      /\ pieces[i].damage = 1 + players[pieces[i].ownerId].techScore
      /\ pieces[i].maxHp = 1 + players[pieces[i].ownerId].techScore
      /\ 1 <= pieces[i].hp /\ pieces[i].hp <= pieces[i].maxHp

\* A player a technology ahead has just eliminated the other and holds the
\* warrior the conversion created for it, with 2 damage and 2 hp.
C40_Witness ==
  /\ last.hasCombat /\ last.combat.elimination.eliminated
  /\ Len(last.combat.elimination.convertedUnits) > 0
  /\ players[last.combat.elimination.conquerer].techScore = MaxTech
  /\ \A k \in DOMAIN last.combat.elimination.convertedUnits :
       \A w \in {PieceOf(G, last.combat.elimination.convertedUnits[k].newWarrior)} :
         /\ w.ownerId = last.combat.elimination.conquerer
         /\ w.damage = 1 + MaxTech /\ w.hp = 1 + MaxTech

====
